---- MODULE Spec2Model ----
(***************************************************************************)
(* A model of the luasyntax Go packages: token taxonomy, file line table,  *)
(* scanner, parser, tree walker, emitter, offset reflow, adjoin fixer,     *)
(* scope builder and minifier.                                             *)
(*                                                                         *)
(* Bytes are one-character strings; a source is a sequence of bytes.       *)
(* Offsets are 0-based as in the Go code; src[i+1] is the byte at offset i.*)
(* Token types carry the names of token.go; the scanner of scanner.go      *)
(* spells seven of them differently (SUB, ADD, MUL, DIV, MOD, EXP, LENGTH  *)
(* for MINUS, PLUS, ASTERISK, SLASH, PERCENT, CARET, HASH).                *)
(***************************************************************************)
EXTENDS Integers, Sequences, FiniteSets, TLC

VARIABLES
    sc,       \* ScanSpec: the Scanner (fields of scanner.Scanner and of the running Scan call)
    emitted,  \* ScanSpec: the tokens Scan has returned so far
    run,      \* Spec: the source, the calls made, the tree and the results of a client
    mf,       \* MinifySpec: the file a client builds, and what Minify made of it
    fd,       \* FileSpec: a token.File, its mutex and the goroutines that call its methods
    gi,       \* IdentSpec: an index, its identifier and the index of that identifier
    lk,       \* LookSpec: a parser whose next and lookahead a client calls
    ls        \* StringSpec: a long string and the value parseBlockString makes of it

vars == <<sc, emitted, run, mf, fd, gi, lk, ls>>

(***************************************************************************)
(* Bytes.                                                                  *)
(***************************************************************************)
eof == "<eof>"

Digits == {"0", "1", "2", "3", "4", "5", "6", "7", "8", "9"}

Letters ==
    {"a", "b", "c", "d", "e", "f", "g", "h", "i", "j", "k", "l", "m", "n", "o",
     "p", "q", "r", "s", "t", "u", "v", "w", "x", "y", "z",
     "A", "B", "C", "D", "E", "F", "G", "H", "I", "J", "K", "L", "M", "N", "O",
     "P", "Q", "R", "S", "T", "U", "V", "W", "X", "Y", "Z", "_"}

isDigit(ch) == ch \in Digits

isLetter(ch) == ch \in Letters

\* The vertical tab of the source has no TLA+ string escape; no modelled source holds one.
isSpace(ch) == ch \in {" ", "\t", "\n", "\r", "\f"}

DigitVal(ch) ==
    CASE ch = "0" -> 0 [] ch = "1" -> 1 [] ch = "2" -> 2 [] ch = "3" -> 3
      [] ch = "4" -> 4 [] ch = "5" -> 5 [] ch = "6" -> 6 [] ch = "7" -> 7
      [] ch = "8" -> 8 [] ch = "9" -> 9

(***************************************************************************)
(* token.Type: the enumeration in declaration order, and the range checks. *)
(***************************************************************************)
TypeOrder ==
    << "INVALID", "valid_start", "EOF", "pre_start", "SPACE", "comm_start",
       "COMMENT", "LONGCOMMENT", "comm_end", "pre_end", "NAME", "num_start",
       "NUMBERFLOAT", "NUMBERHEX", "num_end", "str_start", "STRING",
       "LONGSTRING", "str_end", "op_start", "SEMICOLON", "ASSIGN", "COMMA",
       "DOT", "COLON", "LBRACK", "RBRACK", "VARARG", "LPAREN", "RPAREN",
       "LBRACE", "RBRACE", "binop_start", "PLUS", "ASTERISK", "SLASH",
       "PERCENT", "CARET", "CONCAT", "LT", "LEQ", "GT", "GEQ", "EQ", "NEQ",
       "unop_start", "MINUS", "binop_end", "HASH", "op_end", "key_start",
       "NOT", "unop_end", "DO", "END", "WHILE", "REPEAT", "UNTIL", "IF",
       "THEN", "ELSEIF", "ELSE", "FOR", "IN", "LOCAL", "FUNCTION", "RETURN",
       "BREAK", "NIL", "bool_start", "FALSE", "TRUE", "bool_end",
       "binkey_start", "AND", "OR", "binkey_end", "key_end", "valid_end" >>

Types == {TypeOrder[i] : i \in 1..Len(TypeOrder)}

Ord == [t \in Types |-> CHOOSE i \in 1..Len(TypeOrder) : TypeOrder[i] = t]

Between(lo, t, hi) == Ord[lo] < Ord[t] /\ Ord[t] < Ord[hi]

IsValid(t) == Between("valid_start", t, "valid_end")

IsPrefix(t) == Between("pre_start", t, "pre_end")

IsComment(t) == Between("comm_start", t, "comm_end")

IsNumber(t) == Between("num_start", t, "num_end")

IsString(t) == Between("str_start", t, "str_end")

IsUnary(t) == Between("unop_start", t, "unop_end")

IsKeyword(t) == Between("key_start", t, "key_end")

IsBinary(t) == Between("binop_start", t, "binop_end") \/ Between("binkey_start", t, "binkey_end")

\* A table that gives every binary operator the priority of '+'.
FlatPrecedence(t) == <<6, 6>>

\* Type.Precedence: <<left, right>> priority of a binary operator.
Precedence(t) ==
    CASE t = "CARET" -> <<10, 9>>
      [] t \in {"ASTERISK", "SLASH", "PERCENT"} -> <<7, 7>>
      [] t \in {"PLUS", "MINUS"} -> <<6, 6>>
      [] t = "CONCAT" -> <<5, 4>>
      [] t \in {"LT", "GT", "LEQ", "GEQ", "NEQ", "EQ"} -> <<3, 3>>
      [] t = "AND" -> <<2, 2>>
      [] t = "OR" -> <<1, 1>>
      [] OTHER -> <<0, 0>>

UnaryPrecedence == 8

\* The tokens table restricted to the keywords: their type and spelling.
KeywordTable ==
    << <<"NOT", <<"n","o","t">> >>, <<"DO", <<"d","o">> >>, <<"END", <<"e","n","d">> >>,
       <<"WHILE", <<"w","h","i","l","e">> >>, <<"REPEAT", <<"r","e","p","e","a","t">> >>,
       <<"UNTIL", <<"u","n","t","i","l">> >>, <<"IF", <<"i","f">> >>,
       <<"THEN", <<"t","h","e","n">> >>, <<"ELSEIF", <<"e","l","s","e","i","f">> >>,
       <<"ELSE", <<"e","l","s","e">> >>, <<"FOR", <<"f","o","r">> >>, <<"IN", <<"i","n">> >>,
       <<"LOCAL", <<"l","o","c","a","l">> >>,
       <<"FUNCTION", <<"f","u","n","c","t","i","o","n">> >>,
       <<"RETURN", <<"r","e","t","u","r","n">> >>, <<"BREAK", <<"b","r","e","a","k">> >>,
       <<"NIL", <<"n","i","l">> >>, <<"FALSE", <<"f","a","l","s","e">> >>,
       <<"TRUE", <<"t","r","u","e">> >>, <<"AND", <<"a","n","d">> >>, <<"OR", <<"o","r">> >> >>

\* Lookup maps a name to its keyword, or NAME if it is not a keyword.
Lookup(name) ==
    IF \E i \in 1..Len(KeywordTable) : KeywordTable[i][2] = name
    THEN KeywordTable[CHOOSE i \in 1..Len(KeywordTable) : KeywordTable[i][2] = name][1]
    ELSE "NAME"

(***************************************************************************)
(* token.File: the line table.                                             *)
(***************************************************************************)
\* NewFile: the table starts with the first line at offset 0.
NewFile == <<0>>

\* An AddLine that appends whatever the offset.
AppendLine(lines, offset) == Append(lines, offset)

\* File.AddLine: append offset iff the table is empty or its last entry is smaller.
AddLine(lines, offset) ==
    IF Len(lines) = 0 \/ lines[Len(lines)] < offset THEN Append(lines, offset) ELSE lines

\* File.ClearLines
ClearLines(lines) == <<>>

\* File.LineCount
LineCount(lines) == Len(lines)

\* The loop of File.SetLinesForContent before byte k (1-based) of content:
\* line is the offset of a line that has begun and is not yet recorded, or -1.
RECURSIVE contentLines(_, _, _, _)
contentLines(content, k, line, lines) ==
    IF k > Len(content) THEN lines
    ELSE contentLines(content, k + 1, IF content[k] = "\n" THEN k ELSE -1,
                      IF line >= 0 THEN Append(lines, line) ELSE lines)

\* File.SetLinesForContent: the table it assigns.
SetLinesForContent(content) == contentLines(content, 1, 0, <<>>)

\* A Lock that never waits.
NeverWaits(mutex) == TRUE

\* sync.Mutex.Lock returns once no goroutine holds the mutex (0: unlocked).
CanLock(mutex) == mutex = 0

\* searchInts: index (0-based) of the last entry <= x, or -1.  The binary
\* search of the source returns the number of leading entries <= x, minus one.
RECURSIVE searchLoop(_, _, _, _)
searchLoop(a, x, i, j) ==
    IF i < j
    THEN LET h == i + (j - i) \div 2
         IN IF a[h + 1] <= x THEN searchLoop(a, x, h + 1, j) ELSE searchLoop(a, x, i, h)
    ELSE i - 1

searchInts(a, x) == searchLoop(a, x, 0, Len(a))

\* File.Position: Line and Column stay 0 when no entry is <= offset.
Position(lines, offset) ==
    LET i == searchInts(lines, offset)
    IN IF i >= 0
       THEN [Offset |-> offset, Line |-> i + 1, Column |-> offset - lines[i + 1] + 1]
       ELSE [Offset |-> offset, Line |-> 0, Column |-> 0]

(***************************************************************************)
(* scanner.Scanner.  A Scanner value is a record of the struct's fields    *)
(* (src, ch, offset, rdOffset, lineOffset, ErrorCount), the line table of  *)
(* the token.File it writes, what its ErrorHandler received, and the       *)
(* position of the running Scan call: pc names the loop the call is in     *)
(* ("idle" between calls), off/tok/lit are Scan's results, quote, eq and t *)
(* the locals of scanString and scanLongString, noff the off of            *)
(* scanNumber.  One step is one iteration of the loop pc names, together   *)
(* with the straight-line code that follows the loop when the iteration    *)
(* leaves it.                                                              *)
(***************************************************************************)
MaxErrors == 3

IntModulus == 4

NoErr == [Message |-> <<>>, Position |-> [Offset |-> 0, Line |-> 0, Column |-> 0]]

\* Scanner.next
snext(s) ==
    LET nl == s.ch = "\n"
        o == IF s.rdOffset < Len(s.src) THEN s.rdOffset ELSE Len(s.src)
    IN [s EXCEPT !.offset = o,
                 !.lineOffset = IF nl THEN o ELSE @,
                 !.lines = IF nl THEN AddLine(@, o) ELSE @,
                 !.ch = IF s.rdOffset < Len(s.src) THEN s.src[s.rdOffset + 1] ELSE eof,
                 !.rdOffset = IF s.rdOffset < Len(s.src) THEN @ + 1 ELSE @]

\* Scanner.Init
ScannerInit(src, lines) ==
    snext([src |-> src, ch |-> " ", offset |-> 0, rdOffset |-> 0, lineOffset |-> 0,
           lines |-> lines, ErrorCount |-> 0, herr |-> NoErr, log |-> <<>>,
           pc |-> "idle", off |-> 0, tok |-> "INVALID", lit |-> <<>>,
           quote |-> "", eq |-> 0, t |-> "INVALID", noff |-> 0])

\* Scanner.error: the handler receives the position and the message (herr is
\* what it received last, log the first MaxErrors reports it received, in
\* order), ErrorCount grows and wraps as a Go int does, here at IntModulus.
serror(s, off, msg) ==
    LET e == [Message |-> <<msg>>, Position |-> Position(s.lines, off)]
    IN [s EXCEPT !.herr = e,
                 !.log = IF Len(@) < MaxErrors THEN Append(@, e) ELSE @,
                 !.ErrorCount = (@ + 1) % IntModulus]

\* The return of Scan: lit = s.src[off:s.offset].
sreturn(s, tok) ==
    [s EXCEPT !.pc = "idle", !.tok = tok, !.lit = SubSeq(s.src, s.off + 1, s.offset)]

\* scanSpace, one iteration.
stepSpace(s) ==
    IF isSpace(s.ch) THEN snext(s) ELSE sreturn(s, "SPACE")

\* scanName, one iteration, for the call in Scan (pc = "scanName") and the
\* call that ends scanNumber (pc = "scanNumberName").
stepName(s) ==
    IF isLetter(s.ch) \/ isDigit(s.ch) THEN snext(s)
    ELSE IF s.pc = "scanName"
         THEN sreturn(s, Lookup(SubSeq(s.src, s.off + 1, s.offset)))
         ELSE IF s.offset - s.noff >= 2 /\ SubSeq(s.src, s.noff + 1, s.noff + 2) = <<"0", "x">>
              THEN sreturn(s, "NUMBERHEX")
              ELSE sreturn(s, "NUMBERFLOAT")

\* scanNumber, one iteration of the digit loop; leaving it skips an exponent
\* mark and its sign and enters scanName.
stepNumber(s) ==
    IF isDigit(s.ch) \/ s.ch = "." THEN snext(s)
    ELSE LET s1 == IF s.ch \in {"e", "E"} THEN snext(s) ELSE s
             s2 == IF s.ch \in {"e", "E"} /\ s1.ch \in {"+", "-"} THEN snext(s1) ELSE s1
         IN [s2 EXCEPT !.pc = "scanNumberName"]

\* The decimal escape loop of scanString: up to three digits.
RECURSIVE escDigits(_, _, _)
escDigits(s, c, i) ==
    LET c1 == 10 * c + DigitVal(s.ch)
        s1 == snext(s)
    IN IF i + 1 >= 3 \/ ~isDigit(s1.ch) THEN s1
       ELSE escDigits(IF c1 > 255 THEN serror(s1, s1.off, "escape sequence too large") ELSE s1,
                      c1, i + 1)

\* scanString, one iteration of `for s.ch != quote`.
stepString(s) ==
    IF s.ch = s.quote THEN sreturn(snext(s), "STRING")
    ELSE IF s.ch = eof THEN sreturn(serror(s, s.off, "unfinished string (EOF)"), "STRING")
    ELSE IF s.ch \in {"\n", "\r"} THEN sreturn(serror(s, s.off, "unfinished string (EOL)"), "STRING")
    ELSE IF s.ch = "\\"
         THEN LET s1 == snext(s)
              IN IF s1.ch \in {"\n", "\r"}
                 THEN LET s2 == snext(s1)
                      IN IF s2.ch \in {"\n", "\r"} /\ s2.ch # s1.ch THEN snext(s2) ELSE s2
                 ELSE IF s1.ch = eof THEN s1
                 ELSE IF isDigit(s1.ch) THEN escDigits(s1, 0, 0)
                 ELSE snext(s1)
         ELSE snext(s)

\* scanLongString, one iteration of the loop counting '='; leaving it checks
\* the second '['.
stepLongStringEq(s) ==
    IF s.ch = "=" THEN snext([s EXCEPT !.eq = @ + 1])
    ELSE IF s.ch # "["
         THEN sreturn(serror(s, s.off, "invalid long string delimiter"), s.t)
         ELSE [snext(s) EXCEPT !.pc = "scanLongString"]

\* The `for i := 0; i < eq; i++` loop after a ']': the scanner after the
\* loop, and whether it ran to its end (no `continue loop`).
RECURSIVE closeEq(_, _)
closeEq(s, i) ==
    IF i < s.eq
    THEN IF s.ch # "=" THEN [s |-> s, done |-> FALSE] ELSE closeEq(snext(s), i + 1)
    ELSE [s |-> s, done |-> TRUE]

\* scanLongString, one iteration of the loop labelled `loop`.
stepLongString(s) ==
    LET s0 == IF s.ch = eof
              THEN serror(s, s.off, IF s.t = "LONGCOMMENT"
                                    THEN "unfinished long comment near '<eof>'"
                                    ELSE "unfinished long string near '<eof>'")
              ELSE s
    IN IF s0.ch = "]"
       THEN LET r == closeEq(snext(s0), 0)
            IN IF ~r.done THEN r.s
               ELSE IF r.s.ch = "]" THEN sreturn(snext(r.s), s.t)
               ELSE snext(r.s)
       ELSE snext(s0)

\* scanComment, one iteration of the line comment loop.
stepComment(s) ==
    IF s.ch # "\n" /\ s.ch # eof THEN snext(s) ELSE sreturn(s, "COMMENT")

\* Scan up to its first loop: the switch on the current character.
stepScan(s) ==
    LET ch == s.ch
        b == [s EXCEPT !.off = s.offset, !.eq = 0]
        n == snext(b)
    IN CASE isSpace(ch) -> [b EXCEPT !.pc = "scanSpace"]
         [] isLetter(ch) -> [b EXCEPT !.pc = "scanName"]
         [] isDigit(ch) -> [b EXCEPT !.pc = "scanNumber", !.noff = b.offset]
         [] ch \in {"\"", "'"} -> [snext(b) EXCEPT !.pc = "scanString", !.quote = ch]
         [] ch = "-" ->
              IF n.ch = "-"
              THEN LET c == snext(n)
                   IN IF c.ch = "["
                      THEN [snext(c) EXCEPT !.pc = "scanLongStringEq", !.t = "LONGCOMMENT"]
                      ELSE [c EXCEPT !.pc = "scanComment"]
              ELSE sreturn(n, "MINUS")
         [] ch = "+" -> sreturn(n, "PLUS")
         [] ch = "*" -> sreturn(n, "ASTERISK")
         [] ch = "/" -> sreturn(n, "SLASH")
         [] ch = "%" -> sreturn(n, "PERCENT")
         [] ch = "^" -> sreturn(n, "CARET")
         [] ch = "." ->
              IF isDigit(n.ch) THEN [n EXCEPT !.pc = "scanNumber", !.noff = n.offset]
              ELSE IF n.ch = "."
                   THEN IF snext(n).ch = "." THEN sreturn(snext(snext(n)), "VARARG")
                        ELSE sreturn(snext(n), "CONCAT")
                   ELSE sreturn(n, "DOT")
         [] ch = "<" -> IF n.ch = "=" THEN sreturn(snext(n), "LEQ") ELSE sreturn(n, "LT")
         [] ch = ">" -> IF n.ch = "=" THEN sreturn(snext(n), "GEQ") ELSE sreturn(n, "GT")
         [] ch = "=" -> IF n.ch = "=" THEN sreturn(snext(n), "EQ") ELSE sreturn(n, "ASSIGN")
         [] ch = "~" -> IF n.ch = "=" THEN sreturn(snext(n), "NEQ")
                        ELSE sreturn(serror(n, n.offset, "unexpected symbol"), "INVALID")
         [] ch = ";" -> sreturn(n, "SEMICOLON")
         [] ch = "," -> sreturn(n, "COMMA")
         [] ch = ":" -> sreturn(n, "COLON")
         [] ch = "[" ->
              IF n.ch \in {"[", "="}
              THEN [n EXCEPT !.pc = "scanLongStringEq", !.t = "LONGSTRING"]
              ELSE sreturn(n, "LBRACK")
         [] ch = "]" -> sreturn(n, "RBRACK")
         [] ch = "(" -> sreturn(n, "LPAREN")
         [] ch = ")" -> sreturn(n, "RPAREN")
         [] ch = "{" -> sreturn(n, "LBRACE")
         [] ch = "}" -> sreturn(n, "RBRACE")
         [] ch = "#" -> sreturn(n, "HASH")
         [] ch = eof -> sreturn(n, "EOF")
         [] OTHER -> sreturn(n, "INVALID")

\* One step of the scanner, by the place the Scan call is at.
ScanStep(s) ==
    CASE s.pc = "idle" -> stepScan(s)
      [] s.pc = "scanSpace" -> stepSpace(s)
      [] s.pc \in {"scanName", "scanNumberName"} -> stepName(s)
      [] s.pc = "scanNumber" -> stepNumber(s)
      [] s.pc = "scanString" -> stepString(s)
      [] s.pc = "scanLongStringEq" -> stepLongStringEq(s)
      [] s.pc = "scanLongString" -> stepLongString(s)
      [] s.pc = "scanComment" -> stepComment(s)

(***************************************************************************)
(* parser.parser, mode None.  A parser value holds the scanner, the        *)
(* current token state (off, tok, lit, pre), the lookahead slot, err, the  *)
(* tokens stored in nodes so far (toks: a node refers to its tokens by     *)
(* index, 0 is the zero Token), and the position of the running ParseFile: *)
(* stack holds one frame per parsing function that has been called and has *)
(* not returned, each with the place it is at (pc) and its locals (v); ret *)
(* is what the function that returned last returned; pend tells that a     *)
(* call of next ("next") or lookahead ("look") is running, gather that it  *)
(* is in its loop over prefix tokens, prev the token state lookahead       *)
(* saved; halt is "" while parsing and "bailout" once error() has          *)
(* panicked.  One step of a parsing function runs from the return of a     *)
(* call to the next call; one step of next is one step of the scanner.     *)
(***************************************************************************)
Nil == [k |-> "nil"]

ZeroToken == [Type |-> "INVALID", Prefix |-> <<>>, Offset |-> 0, Bytes |-> <<>>]

NoLook == [set |-> FALSE, off |-> 0, tok |-> "INVALID", lit |-> <<>>, pre |-> <<>>]

Halted(p) == p.halt # ""

\* The frame of the running function, its locals, and a local by name: a
\* Token that was not assigned is the zero Token, a pointer nil, a slice empty.
Top(p) == p.stack[Len(p.stack)]

V(p) == Top(p).v

Has(p, x) == x \in DOMAIN V(p)

TokOf(p, x) == IF Has(p, x) THEN V(p)[x] ELSE 0

NodeOf(p, x) == IF Has(p, x) THEN V(p)[x] ELSE Nil

ListOf(p, x) == IF Has(p, x) THEN V(p)[x] ELSE <<>>

\* Assignment to a local, append to a local slice.
Set(p, x, val) == [p EXCEPT !.stack[Len(p.stack)].v = (x :> val) @@ @]

Push(p, x, val) == Set(p, x, Append(ListOf(p, x), val))

\* The running function goes on at pc; it calls fn and goes on at pc when fn
\* returns; it returns n.
Goto(p, pc) == [p EXCEPT !.stack[Len(p.stack)].pc = pc]

Invoke(p, pc, fn, args) ==
    [p EXCEPT !.stack = Append([@ EXCEPT ![Len(@)].pc = pc], [fn |-> fn, pc |-> 0, v |-> args])]

Return(p, n) == [p EXCEPT !.stack = SubSeq(@, 1, Len(@) - 1), !.ret = n]

NoArgs == <<>>

\* parser.init: the scanner is initialised with the handler that stores each
\* report in p.err, and next is called.
init(src) ==
    [scanner |-> ScannerInit(src, NewFile), off |-> 0, tok |-> "INVALID",
     lit |-> <<>>, pre |-> <<>>, look |-> NoLook, err |-> NoErr,
     toks |-> <<>>, halt |-> "", pend |-> "next", gather |-> FALSE, prev |-> NoLook,
     stack |-> <<[fn |-> "parseFile", pc |-> 0, v |-> NoArgs]>>, ret |-> Nil]

\* The token state as lookahead saves and stores it.
tokenstate(p) == [set |-> TRUE, off |-> p.off, tok |-> p.tok, lit |-> p.lit, pre |-> p.pre]

\* The return of next, and of lookahead after its call of next: lookahead
\* stores the new token state in p.look and restores the one it saved.
nextReturns(p) ==
    IF p.pend = "look"
    THEN [p EXCEPT !.pend = "", !.gather = FALSE, !.look = tokenstate(p),
                   !.off = p.prev.off, !.tok = p.prev.tok, !.lit = p.prev.lit,
                   !.pre = p.prev.pre]
    ELSE [p EXCEPT !.pend = "", !.gather = FALSE]

\* The return of a Scan call of next: `p.off, p.tok, p.lit = p.scanner.Scan()`,
\* then the loop goes on while the token is a prefix.
scanReturns(p) ==
    IF IsPrefix(p.scanner.tok)
    THEN [p EXCEPT !.off = p.scanner.off, !.tok = p.scanner.tok, !.lit = p.scanner.lit,
                   !.gather = TRUE]
    ELSE nextReturns([p EXCEPT !.off = p.scanner.off, !.tok = p.scanner.tok,
                               !.lit = p.scanner.lit])

\* The parser after one step s of the scanner inside next; the handler
\* installed by init stores what the scanner reports in p.err.
scanned(p, s) ==
    IF s.pc = "idle"
    THEN scanReturns([p EXCEPT !.scanner = s, !.err = s.herr])
    ELSE [p EXCEPT !.scanner = s, !.err = s.herr]

\* parser.next, one step: the stored lookahead state is consumed; or a Scan
\* call is started (p.pre is nil before the first, and holds one prefix more
\* before each further one) or goes on by one step.
next(p) ==
    IF p.look.set /\ p.scanner.pc = "idle" /\ ~p.gather
    THEN nextReturns([p EXCEPT !.off = p.look.off, !.tok = p.look.tok, !.lit = p.look.lit,
                               !.pre = p.look.pre, !.look = NoLook])
    ELSE scanned([p EXCEPT !.pre = IF p.scanner.pc # "idle" THEN @
                                   ELSE IF p.gather
                                        THEN Append(@, [Type |-> p.tok, Bytes |-> p.lit])
                                        ELSE <<>>],
                 ScanStep(p.scanner))

\* A lookahead that calls next without saving the token state.
lookaheadUnsaved(p) == [p EXCEPT !.pend = "look"]

\* parser.lookahead: the token state is saved and next is called.
lookahead(p) == [p EXCEPT !.pend = "look", !.prev = tokenstate(p)]

\* parser.error: store the error, panic.
perror(p, off, msg) ==
    [p EXCEPT !.err = [Message |-> msg, Position |-> Position(p.scanner.lines, off)],
              !.halt = "bailout"]

\* Type.String for the types expect is called with.
TypeString(t) ==
    CASE t = "NAME" -> "<name>" [] t = "ASSIGN" -> "=" [] t = "COMMA" -> ","
      [] t = "LPAREN" -> "(" [] t = "RPAREN" -> ")" [] t = "RBRACK" -> "]"
      [] t = "LBRACE" -> "{" [] t = "RBRACE" -> "}" [] t = "STRING" -> "<string>"
      [] t = "DO" -> "do" [] t = "END" -> "end" [] t = "WHILE" -> "while"
      [] t = "REPEAT" -> "repeat" [] t = "UNTIL" -> "until" [] t = "IF" -> "if"
      [] t = "THEN" -> "then" [] t = "ELSEIF" -> "elseif" [] t = "ELSE" -> "else"
      [] t = "FOR" -> "for" [] t = "IN" -> "in" [] t = "LOCAL" -> "local"
      [] t = "FUNCTION" -> "function" [] t = "RETURN" -> "return" [] t = "BREAK" -> "break"

\* parser.expect
expect(p, tok) ==
    IF p.tok # tok THEN perror(p, p.off, <<"'", TypeString(tok), "' expected">>) ELSE p

\* parser.token
token(p) == [Type |-> p.tok, Prefix |-> p.pre, Offset |-> p.off, Bytes |-> p.lit]

\* The index the token made from the current state gets in toks.
NewToken(p) == Len(p.toks) + 1

\* parser.tokenNext, the token being stored where the caller stores it:
\* nowhere yet (consume), in the local x (tokenNext), at the end of the local
\* slice x (appendToken).
consume(p) ==
    IF Halted(p) THEN p ELSE [p EXCEPT !.toks = Append(@, token(p)), !.pend = "next"]

tokenNext(p, x) == consume(Set(p, x, NewToken(p)))

appendToken(p, x) == consume(Push(p, x, NewToken(p)))

\* parser.expectToken
expectToken(p, t, x) == tokenNext(expect(p, t), x)

\* parser.isBlockFollow
isBlockFollow(p) == p.tok \in {"EOF", "ELSE", "ELSEIF", "UNTIL", "END"}

\* parser.parseName, the Name being stored in the local x (parseName) or at
\* the end of the local slice x (appendName).
theName(p) == [k |-> "Name", Token |-> NewToken(p)]

parseName(p, x) == consume(Set(expect(p, "NAME"), x, theName(p)))

appendName(p, x) == consume(Push(expect(p, "NAME"), x, theName(p)))

\* parser.parseNumber and parser.parseString, called on a token of their kind.
parseNumber(p) == [k |-> "NumberExpr", NumberToken |-> NewToken(p)]

parseString(p) == [k |-> "StringExpr", StringToken |-> NewToken(p)]

PC(p) == Top(p).pc

\* parser.parseExpr
parseExpr(p) ==
    CASE PC(p) = 0 -> Invoke(p, 1, "parseSubexpr", [limit |-> 0])
      [] PC(p) = 1 -> Return(p, p.ret)

\* parser.parseSimpleExpr
parseSimpleExpr(p) ==
    CASE PC(p) = 0 ->
           CASE p.tok \in {"NUMBERFLOAT", "NUMBERHEX"} -> Return(consume(p), parseNumber(p))
             [] p.tok \in {"STRING", "LONGSTRING"} -> Return(consume(p), parseString(p))
             [] p.tok = "NIL" -> Return(consume(p), [k |-> "NilExpr", NilToken |-> NewToken(p)])
             [] p.tok \in {"TRUE", "FALSE"} ->
                  Return(consume(p), [k |-> "BoolExpr", BoolToken |-> NewToken(p)])
             [] p.tok = "VARARG" ->
                  Return(consume(p), [k |-> "VarArgExpr", VarArgToken |-> NewToken(p)])
             [] p.tok = "LBRACE" -> Invoke(p, 1, "parseTableCtor", NoArgs)
             [] p.tok = "FUNCTION" -> Invoke(p, 2, "parseFunction", [typ |-> "funcExpr"])
             [] OTHER -> Invoke(p, 1, "parsePrimaryExpr", NoArgs)
      [] PC(p) = 1 -> Return(p, p.ret)
      [] PC(p) = 2 -> Return(p, p.ret.expr)

\* parser.parseSubexpr: the operand (0 to 2), then the loop over the binary
\* operators (3, 4).
parseSubexpr(p) ==
    CASE PC(p) = 0 ->
           IF IsUnary(p.tok)
           THEN Invoke(tokenNext(p, "UnopToken"), 1, "parseSubexpr", [limit |-> UnaryPrecedence])
           ELSE Invoke(p, 2, "parseSimpleExpr", NoArgs)
      [] PC(p) = 1 ->
           Goto(Set(p, "expr", [k |-> "UnopExpr", UnopToken |-> TokOf(p, "UnopToken"),
                                Operand |-> p.ret]), 3)
      [] PC(p) = 2 ->
           IF p.ret = Nil THEN perror(p, p.off, <<"nil simpleexpr">>)
           ELSE Goto(Set(p, "expr", p.ret), 3)
      [] PC(p) = 3 ->
           IF IsBinary(p.tok) /\ Precedence(p.tok)[1] > V(p).limit
           THEN Invoke(tokenNext(p, "binopToken"), 4, "parseSubexpr",
                       [limit |-> Precedence(p.tok)[2]])
           ELSE Return(p, NodeOf(p, "expr"))
      [] PC(p) = 4 ->
           Goto(Set(p, "expr", [k |-> "BinopExpr", Left |-> NodeOf(p, "expr"),
                                BinopToken |-> TokOf(p, "binopToken"), Right |-> p.ret]), 3)

\* The ExprList and the NameList of the local slices items and seps.
ExprList(p, items, seps) == [k |-> "ExprList", Items |-> ListOf(p, items), Seps |-> ListOf(p, seps)]

NameList(p, items, seps) == [k |-> "NameList", Items |-> ListOf(p, items), Seps |-> ListOf(p, seps)]

\* parser.parseExprList
parseExprList(p) ==
    CASE PC(p) = 0 -> Invoke(p, 1, "parseExpr", NoArgs)
      [] PC(p) = 1 -> Goto(Push(p, "Items", p.ret), 2)
      [] PC(p) = 2 ->
           IF p.tok = "COMMA" THEN Invoke(appendToken(p, "Seps"), 1, "parseExpr", NoArgs)
           ELSE Return(p, ExprList(p, "Items", "Seps"))

\* parser.parsePrefixExpr
parsePrefixExpr(p) ==
    CASE PC(p) = 0 ->
           CASE p.tok = "LPAREN" -> Invoke(tokenNext(p, "LParenToken"), 1, "parseExpr", NoArgs)
             [] p.tok = "NAME" -> Return(consume(p), [k |-> "VariableExpr", Name |-> theName(p)])
             [] OTHER -> perror(p, p.off, <<"unexpected symbol">>)
      [] PC(p) = 1 ->
           Return(expectToken(p, "RPAREN", "RParenToken"),
                  [k |-> "ParenExpr", LParenToken |-> TokOf(p, "LParenToken"), Value |-> p.ret,
                   RParenToken |-> NewToken(p)])

\* parser.parsePrimaryExpr: the prefix expression (0, 1), then the loop over
\* the suffixes (2 to 7).
parsePrimaryExpr(p) ==
    CASE PC(p) = 0 -> Invoke(p, 1, "parsePrefixExpr", NoArgs)
      [] PC(p) = 1 -> Goto(Set(p, "expr", p.ret), 2)
      [] PC(p) = 2 ->
           CASE p.tok = "DOT" -> Goto(tokenNext(p, "DotToken"), 3)
             [] p.tok = "COLON" -> Goto(tokenNext(p, "ColonToken"), 4)
             [] p.tok = "LBRACK" -> Invoke(tokenNext(p, "LBrackToken"), 6, "parseExpr", NoArgs)
             [] p.tok \in {"LBRACE", "LPAREN"} -> Invoke(p, 7, "parseFuncArgs", NoArgs)
             [] OTHER -> Return(p, NodeOf(p, "expr"))
      [] PC(p) = 3 ->
           Goto(Set(parseName(p, "Name"), "expr",
                    [k |-> "FieldExpr", Value |-> NodeOf(p, "expr"),
                     DotToken |-> TokOf(p, "DotToken"), Name |-> theName(p)]), 2)
      [] PC(p) = 4 -> Invoke(parseName(p, "Name"), 5, "parseFuncArgs", NoArgs)
      [] PC(p) = 5 ->
           Goto(Set(p, "expr", [k |-> "MethodExpr", Value |-> NodeOf(p, "expr"),
                                ColonToken |-> TokOf(p, "ColonToken"),
                                Name |-> NodeOf(p, "Name"), Args |-> p.ret]), 2)
      [] PC(p) = 6 ->
           Goto(Set(expectToken(p, "RBRACK", "RBrackToken"), "expr",
                    [k |-> "IndexExpr", Value |-> NodeOf(p, "expr"),
                     LBrackToken |-> TokOf(p, "LBrackToken"), Index |-> p.ret,
                     RBrackToken |-> NewToken(p)]), 2)
      [] PC(p) = 7 ->
           Goto(Set(p, "expr", [k |-> "CallExpr", Value |-> NodeOf(p, "expr"),
                                Args |-> p.ret]), 2)

\* The EntryList of a table constructor.
EntryList(p) == [k |-> "EntryList", Items |-> ListOf(p, "Items"), Seps |-> ListOf(p, "Seps")]

\* parser.parseTableCtor: the loop over the entries (1 to 8): an IndexEntry
\* (2 to 4), after the lookahead (5) a FieldEntry (6, 7) or a ValueEntry (8),
\* then the separator (9).
parseTableCtor(p) ==
    CASE PC(p) = 0 -> Goto(expectToken(p, "LBRACE", "LBraceToken"), 1)
      [] PC(p) = 1 ->
           CASE p.tok = "RBRACE" -> Goto(p, 10)
             [] p.tok = "LBRACK" -> Invoke(tokenNext(p, "LBrackToken"), 2, "parseExpr", NoArgs)
             [] OTHER -> Goto(lookahead(p), 5)
      [] PC(p) = 2 -> Goto(expectToken(Set(p, "Key", p.ret), "RBRACK", "RBrackToken"), 3)
      [] PC(p) = 3 -> Invoke(expectToken(p, "ASSIGN", "AssignToken"), 4, "parseExpr", NoArgs)
      [] PC(p) = 4 ->
           Goto(Push(p, "Items", [k |-> "IndexEntry", LBrackToken |-> TokOf(p, "LBrackToken"),
                                  Key |-> NodeOf(p, "Key"),
                                  RBrackToken |-> TokOf(p, "RBrackToken"),
                                  AssignToken |-> TokOf(p, "AssignToken"), Value |-> p.ret]), 9)
      [] PC(p) = 5 ->
           IF p.tok = "NAME" /\ p.look.tok = "ASSIGN" THEN Goto(parseName(p, "Name"), 6)
           ELSE Invoke(p, 8, "parseExpr", NoArgs)
      [] PC(p) = 6 -> Invoke(expectToken(p, "ASSIGN", "AssignToken"), 7, "parseExpr", NoArgs)
      [] PC(p) = 7 ->
           Goto(Push(p, "Items", [k |-> "FieldEntry", Name |-> NodeOf(p, "Name"),
                                  AssignToken |-> TokOf(p, "AssignToken"), Value |-> p.ret]), 9)
      [] PC(p) = 8 -> Goto(Push(p, "Items", [k |-> "ValueEntry", Value |-> p.ret]), 9)
      [] PC(p) = 9 ->
           IF p.tok \in {"COMMA", "SEMICOLON"} THEN Goto(appendToken(p, "Seps"), 1)
           ELSE Goto(p, 10)
      [] PC(p) = 10 ->
           Return(expectToken(p, "RBRACE", "RBraceToken"),
                  [k |-> "TableCtor", LBraceToken |-> TokOf(p, "LBraceToken"),
                   Entries |-> EntryList(p), RBraceToken |-> NewToken(p)])

\* parser.parseFuncArgs: the loop over the arguments (1, 2); Values stays nil
\* when the loop appends nothing.
parseFuncArgs(p) ==
    CASE PC(p) = 0 ->
           CASE p.tok = "LPAREN" -> Goto(tokenNext(p, "LParenToken"), 1)
             [] p.tok = "LBRACE" -> Invoke(p, 4, "parseTableCtor", NoArgs)
             [] p.tok \in {"STRING", "LONGSTRING"} ->
                  Return(consume(p), [k |-> "StringArg", Value |-> parseString(p)])
             [] OTHER -> perror(p, p.off, <<"function arguments expected">>)
      [] PC(p) = 1 ->
           IF p.tok # "RPAREN" THEN Invoke(p, 2, "parseExpr", NoArgs) ELSE Goto(p, 3)
      [] PC(p) = 2 ->
           IF p.tok = "COMMA" THEN Goto(appendToken(Push(p, "Items", p.ret), "Seps"), 1)
           ELSE Goto(Push(p, "Items", p.ret), 3)
      [] PC(p) = 3 ->
           Return(expectToken(p, "RPAREN", "RParenToken"),
                  [k |-> "ListArgs", LParenToken |-> TokOf(p, "LParenToken"),
                   Values |-> IF Has(p, "Items") THEN ExprList(p, "Items", "Seps") ELSE Nil,
                   RParenToken |-> NewToken(p)])
      [] PC(p) = 4 -> Return(p, [k |-> "TableArg", Value |-> p.ret])

\* parser.parseBlockBody
parseBlockBody(p) ==
    CASE PC(p) = 0 -> Invoke(p, 1, "parseBlock", NoArgs)
      [] PC(p) = 1 ->
           IF p.tok # V(p).term THEN perror(p, p.off, <<TypeString(V(p).term), " expected">>)
           ELSE Return(p, p.ret)

\* parser.parseDoStmt
parseDoStmt(p) ==
    CASE PC(p) = 0 ->
           Invoke(expectToken(p, "DO", "DoToken"), 1, "parseBlockBody", [term |-> "END"])
      [] PC(p) = 1 ->
           Return(expectToken(p, "END", "EndToken"),
                  [k |-> "DoStmt", DoToken |-> TokOf(p, "DoToken"), Body |-> p.ret,
                   EndToken |-> NewToken(p)])

\* parser.parseWhileStmt
parseWhileStmt(p) ==
    CASE PC(p) = 0 -> Invoke(expectToken(p, "WHILE", "WhileToken"), 1, "parseExpr", NoArgs)
      [] PC(p) = 1 ->
           Invoke(expectToken(Set(p, "Cond", p.ret), "DO", "DoToken"), 2, "parseBlockBody",
                  [term |-> "END"])
      [] PC(p) = 2 ->
           Return(expectToken(p, "END", "EndToken"),
                  [k |-> "WhileStmt", WhileToken |-> TokOf(p, "WhileToken"),
                   Cond |-> NodeOf(p, "Cond"), DoToken |-> TokOf(p, "DoToken"),
                   Body |-> p.ret, EndToken |-> NewToken(p)])

\* parser.parseRepeatStmt
parseRepeatStmt(p) ==
    CASE PC(p) = 0 ->
           Invoke(expectToken(p, "REPEAT", "RepeatToken"), 1, "parseBlockBody",
                  [term |-> "UNTIL"])
      [] PC(p) = 1 ->
           Invoke(expectToken(Set(p, "Body", p.ret), "UNTIL", "UntilToken"), 2, "parseExpr",
                  NoArgs)
      [] PC(p) = 2 ->
           Return(p, [k |-> "RepeatStmt", RepeatToken |-> TokOf(p, "RepeatToken"),
                      Body |-> NodeOf(p, "Body"), UntilToken |-> TokOf(p, "UntilToken"),
                      Cond |-> p.ret])

\* parser.parseIfStmt: the loop over the elseif clauses (3 to 5), the else
\* clause (6), the end (7).
parseIfStmt(p) ==
    CASE PC(p) = 0 -> Invoke(expectToken(p, "IF", "IfToken"), 1, "parseExpr", NoArgs)
      [] PC(p) = 1 ->
           Invoke(expectToken(Set(p, "Cond", p.ret), "THEN", "ThenToken"), 2, "parseBlock",
                  NoArgs)
      [] PC(p) = 2 -> Goto(Set(p, "Body", p.ret), 3)
      [] PC(p) = 3 ->
           CASE p.tok = "ELSEIF" ->
                  Invoke(expectToken(p, "ELSEIF", "ElseIfToken"), 4, "parseExpr", NoArgs)
             [] p.tok = "ELSE" ->
                  Invoke(expectToken(p, "ELSE", "ElseToken"), 6, "parseBlock", NoArgs)
             [] OTHER -> Goto(p, 7)
      [] PC(p) = 4 ->
           Invoke(expectToken(Set(p, "clauseCond", p.ret), "THEN", "clauseThenToken"), 5,
                  "parseBlock", NoArgs)
      [] PC(p) = 5 ->
           Goto(Push(p, "ElseIf", [k |-> "ElseIfClause",
                                   ElseIfToken |-> TokOf(p, "ElseIfToken"),
                                   Cond |-> NodeOf(p, "clauseCond"),
                                   ThenToken |-> TokOf(p, "clauseThenToken"),
                                   Body |-> p.ret]), 3)
      [] PC(p) = 6 ->
           Goto(Set(p, "Else", [k |-> "ElseClause", ElseToken |-> TokOf(p, "ElseToken"),
                                Body |-> p.ret]), 7)
      [] PC(p) = 7 ->
           Return(expectToken(p, "END", "EndToken"),
                  [k |-> "IfStmt", IfToken |-> TokOf(p, "IfToken"), Cond |-> NodeOf(p, "Cond"),
                   ThenToken |-> TokOf(p, "ThenToken"), Body |-> NodeOf(p, "Body"),
                   ElseIf |-> ListOf(p, "ElseIf"), Else |-> NodeOf(p, "Else"),
                   EndToken |-> NewToken(p)])

\* parser.parseForStmt: the numeric form (3 to 6), the generic form with
\* the loop over its names (7 to 10).
parseForStmt(p) ==
    CASE PC(p) = 0 -> Goto(expectToken(p, "FOR", "forToken"), 1)
      [] PC(p) = 1 -> Goto(parseName(p, "name"), 2)
      [] PC(p) = 2 ->
           CASE p.tok = "ASSIGN" ->
                  Invoke(expectToken(p, "ASSIGN", "AssignToken"), 3, "parseExpr", NoArgs)
             [] p.tok \in {"COMMA", "IN"} -> Goto(Push(p, "Items", NodeOf(p, "name")), 7)
             [] OTHER -> perror(p, p.off, <<"'=' or 'in' expected">>)
      [] PC(p) = 3 ->
           Invoke(expectToken(Set(p, "Min", p.ret), "COMMA", "MaxSepToken"), 4, "parseExpr",
                  NoArgs)
      [] PC(p) = 4 ->
           IF p.tok = "COMMA"
           THEN Invoke(expectToken(Set(p, "Max", p.ret), "COMMA", "StepSepToken"), 5,
                       "parseExpr", NoArgs)
           ELSE Invoke(expectToken(Set(p, "Max", p.ret), "DO", "DoToken"), 6, "parseBlockBody",
                       [term |-> "END"])
      [] PC(p) = 5 ->
           Invoke(expectToken(Set(p, "Step", p.ret), "DO", "DoToken"), 6, "parseBlockBody",
                  [term |-> "END"])
      [] PC(p) = 6 ->
           Return(expectToken(p, "END", "EndToken"),
                  [k |-> "NumericForStmt", ForToken |-> TokOf(p, "forToken"),
                   Name |-> NodeOf(p, "name"), AssignToken |-> TokOf(p, "AssignToken"),
                   Min |-> NodeOf(p, "Min"), MaxSepToken |-> TokOf(p, "MaxSepToken"),
                   Max |-> NodeOf(p, "Max"), StepSepToken |-> TokOf(p, "StepSepToken"),
                   Step |-> NodeOf(p, "Step"), DoToken |-> TokOf(p, "DoToken"),
                   Body |-> p.ret, EndToken |-> NewToken(p)])
      [] PC(p) = 7 ->
           IF p.tok = "COMMA" THEN Goto(appendToken(p, "Seps"), 8)
           ELSE Invoke(expectToken(p, "IN", "InToken"), 9, "parseExprList", NoArgs)
      [] PC(p) = 8 -> Goto(appendName(p, "Items"), 7)
      [] PC(p) = 9 ->
           Invoke(expectToken(Set(p, "Iterator", p.ret), "DO", "DoToken"), 10,
                  "parseBlockBody", [term |-> "END"])
      [] PC(p) = 10 ->
           Return(expectToken(p, "END", "EndToken"),
                  [k |-> "GenericForStmt", ForToken |-> TokOf(p, "forToken"),
                   Names |-> NameList(p, "Items", "Seps"), InToken |-> TokOf(p, "InToken"),
                   Iterator |-> NodeOf(p, "Iterator"), DoToken |-> TokOf(p, "DoToken"),
                   Body |-> p.ret, EndToken |-> NewToken(p)])

\* parser.parseFunction: the names (1 to 4), the parameters (5 to 8), the
\* body (9, 10).  It returns the FunctionExpr (expr) and the FuncNameList
\* (names).
parseFunction(p) ==
    CASE PC(p) = 0 ->
           Goto(expectToken(p, "FUNCTION", "FuncToken"), IF V(p).typ # "funcExpr" THEN 1 ELSE 5)
      [] PC(p) = 1 -> Goto(appendName(p, "Items"), IF V(p).typ = "funcStmt" THEN 2 ELSE 5)
      [] PC(p) = 2 ->
           CASE p.tok = "DOT" -> Goto(appendToken(p, "Seps"), 3)
             [] p.tok = "COLON" -> Goto(tokenNext(p, "ColonToken"), 4)
             [] OTHER -> Goto(p, 5)
      [] PC(p) = 3 -> Goto(appendName(p, "Items"), 2)
      [] PC(p) = 4 -> Goto(parseName(p, "Method"), 5)
      [] PC(p) = 5 -> Goto(expectToken(p, "LPAREN", "LParenToken"), 6)
      [] PC(p) = 6 ->
           CASE p.tok = "NAME" -> Goto(appendName(p, "ParamItems"), 7)
             [] p.tok = "VARARG" -> Goto(tokenNext(p, "VarArgToken"), 9)
             [] OTHER -> Goto(p, 9)
      [] PC(p) = 7 ->
           IF p.tok = "COMMA" THEN Goto(tokenNext(p, "sepToken"), 8) ELSE Goto(p, 9)
      [] PC(p) = 8 ->
           IF p.tok = "VARARG"
           THEN Goto(tokenNext(Set(p, "VarArgSepToken", TokOf(p, "sepToken")), "VarArgToken"), 9)
           ELSE Goto(appendName(Push(p, "ParamSeps", TokOf(p, "sepToken")), "ParamItems"), 7)
      [] PC(p) = 9 ->
           Invoke(expectToken(p, "RPAREN", "RParenToken"), 10, "parseBlockBody",
                  [term |-> "END"])
      [] PC(p) = 10 ->
           Return(expectToken(p, "END", "EndToken"),
                  [expr |-> [k |-> "FunctionExpr", FuncToken |-> TokOf(p, "FuncToken"),
                             LParenToken |-> TokOf(p, "LParenToken"),
                             Params |-> IF Has(p, "ParamItems")
                                        THEN NameList(p, "ParamItems", "ParamSeps") ELSE Nil,
                             VarArgSepToken |-> TokOf(p, "VarArgSepToken"),
                             VarArgToken |-> TokOf(p, "VarArgToken"),
                             RParenToken |-> TokOf(p, "RParenToken"),
                             Body |-> p.ret, EndToken |-> NewToken(p)],
                   names |-> [k |-> "FuncNameList", Items |-> ListOf(p, "Items"),
                              Seps |-> ListOf(p, "Seps"),
                              ColonToken |-> TokOf(p, "ColonToken"),
                              Method |-> IF Has(p, "Method") THEN V(p).Method
                                         ELSE [k |-> "Name", Token |-> 0]]])

\* The LocalVarStmt of parseLocalStmt.
LocalVarStmt(p, values) ==
    [k |-> "LocalVarStmt", LocalToken |-> TokOf(p, "localToken"),
     Names |-> NameList(p, "Items", "Seps"), AssignToken |-> TokOf(p, "AssignToken"),
     Values |-> values]

\* parser.parseLocalStmt: a local function (2), or the loop over the names
\* (3, 4) and the values (5).
parseLocalStmt(p) ==
    CASE PC(p) = 0 -> Goto(expectToken(p, "LOCAL", "localToken"), 1)
      [] PC(p) = 1 ->
           IF p.tok = "FUNCTION" THEN Invoke(p, 2, "parseFunction", [typ |-> "funcLocal"])
           ELSE Goto(appendName(p, "Items"), 3)
      [] PC(p) = 2 ->
           Return(p, [k |-> "LocalFunctionStmt", LocalToken |-> TokOf(p, "localToken"),
                      Name |-> p.ret.names.Items[1], Func |-> p.ret.expr])
      [] PC(p) = 3 ->
           CASE p.tok = "COMMA" -> Goto(appendToken(p, "Seps"), 4)
             [] p.tok = "ASSIGN" ->
                  Invoke(tokenNext(p, "AssignToken"), 5, "parseExprList", NoArgs)
             [] OTHER -> Return(p, LocalVarStmt(p, Nil))
      [] PC(p) = 4 -> Goto(appendName(p, "Items"), 3)
      [] PC(p) = 5 -> Return(p, LocalVarStmt(p, p.ret))

\* parser.parseFunctionStmt
parseFunctionStmt(p) ==
    CASE PC(p) = 0 -> Invoke(p, 1, "parseFunction", [typ |-> "funcStmt"])
      [] PC(p) = 1 ->
           Return(p, [k |-> "FunctionStmt", Name |-> p.ret.names, Func |-> p.ret.expr])

\* parser.parseReturnStmt
parseReturnStmt(p) ==
    CASE PC(p) = 0 -> Goto(expectToken(p, "RETURN", "ReturnToken"), 1)
      [] PC(p) = 1 ->
           IF isBlockFollow(p) \/ p.tok = "SEMICOLON"
           THEN Return(p, [k |-> "ReturnStmt", ReturnToken |-> TokOf(p, "ReturnToken"),
                           Values |-> Nil])
           ELSE Invoke(p, 2, "parseExprList", NoArgs)
      [] PC(p) = 2 ->
           Return(p, [k |-> "ReturnStmt", ReturnToken |-> TokOf(p, "ReturnToken"),
                      Values |-> p.ret])

\* parser.parseBreakStmt
parseBreakStmt(p) ==
    Return(expectToken(p, "BREAK", "BreakToken"),
           [k |-> "BreakStmt", BreakToken |-> NewToken(p)])

\* The type assertion expr.(ast.Call).
IsCall(expr) == expr.k \in {"MethodExpr", "CallExpr"}

\* parser.parseExprStmt: a call, or the loop over the further assignment
\* targets (2, 3) and the values (4).
parseExprStmt(p) ==
    CASE PC(p) = 0 -> Invoke(p, 1, "parsePrimaryExpr", NoArgs)
      [] PC(p) = 1 ->
           IF IsCall(p.ret) THEN Return(p, [k |-> "CallStmt", Call |-> p.ret])
           ELSE Goto(Push(p, "Items", p.ret), 2)
      [] PC(p) = 2 ->
           IF p.tok = "COMMA" THEN Invoke(appendToken(p, "Seps"), 3, "parsePrimaryExpr", NoArgs)
           ELSE Invoke(expectToken(p, "ASSIGN", "AssignToken"), 4, "parseExprList", NoArgs)
      [] PC(p) = 3 ->
           IF IsCall(p.ret) THEN perror(p, p.off, <<"syntax error">>)
           ELSE Goto(Push(p, "Items", p.ret), 2)
      [] PC(p) = 4 ->
           Return(p, [k |-> "AssignStmt", Left |-> ExprList(p, "Items", "Seps"),
                      AssignToken |-> TokOf(p, "AssignToken"), Right |-> p.ret])

\* parser.parseStmt: it returns the statement (stmt) and whether it ends its
\* block (last).
parseStmt(p) ==
    CASE PC(p) = 0 ->
           CASE p.tok = "DO" -> Invoke(p, 1, "parseDoStmt", NoArgs)
             [] p.tok = "WHILE" -> Invoke(p, 1, "parseWhileStmt", NoArgs)
             [] p.tok = "REPEAT" -> Invoke(p, 1, "parseRepeatStmt", NoArgs)
             [] p.tok = "IF" -> Invoke(p, 1, "parseIfStmt", NoArgs)
             [] p.tok = "FOR" -> Invoke(p, 1, "parseForStmt", NoArgs)
             [] p.tok = "FUNCTION" -> Invoke(p, 1, "parseFunctionStmt", NoArgs)
             [] p.tok = "LOCAL" -> Invoke(p, 1, "parseLocalStmt", NoArgs)
             [] p.tok = "RETURN" -> Invoke(p, 2, "parseReturnStmt", NoArgs)
             [] p.tok = "BREAK" -> Invoke(p, 2, "parseBreakStmt", NoArgs)
             [] OTHER -> Invoke(p, 1, "parseExprStmt", NoArgs)
      [] PC(p) = 1 -> Return(p, [stmt |-> p.ret, last |-> FALSE])
      [] PC(p) = 2 -> Return(p, [stmt |-> p.ret, last |-> TRUE])

\* parser.parseBlock: the loop `for last := false; !last && !p.isBlockFollow();`.
parseBlock(p) ==
    CASE PC(p) = 0 ->
           IF ~(Has(p, "last") /\ V(p).last) /\ ~isBlockFollow(p)
           THEN Invoke(p, 1, "parseStmt", NoArgs)
           ELSE Return(p, [k |-> "Block", Items |-> ListOf(p, "Items"),
                           Seps |-> ListOf(p, "Seps")])
      [] PC(p) = 1 ->
           IF p.tok = "SEMICOLON"
           THEN Goto(appendToken(Set(Push(p, "Items", p.ret.stmt), "last", p.ret.last), "Seps"), 0)
           ELSE Goto(Push(Set(Push(p, "Items", p.ret.stmt), "last", p.ret.last), "Seps", 0), 0)

\* parser.parseFile
parseFile(p) ==
    CASE PC(p) = 0 -> Invoke(p, 1, "parseBlock", NoArgs)
      [] PC(p) = 1 ->
           Return(consume(p), [k |-> "File", Body |-> p.ret, EOFToken |-> NewToken(p)])

\* One step of the parsing function that is running.
parseStep(p) ==
    CASE Top(p).fn = "parseFile" -> parseFile(p)
      [] Top(p).fn = "parseBlock" -> parseBlock(p)
      [] Top(p).fn = "parseStmt" -> parseStmt(p)
      [] Top(p).fn = "parseExprStmt" -> parseExprStmt(p)
      [] Top(p).fn = "parseBreakStmt" -> parseBreakStmt(p)
      [] Top(p).fn = "parseReturnStmt" -> parseReturnStmt(p)
      [] Top(p).fn = "parseFunctionStmt" -> parseFunctionStmt(p)
      [] Top(p).fn = "parseLocalStmt" -> parseLocalStmt(p)
      [] Top(p).fn = "parseFunction" -> parseFunction(p)
      [] Top(p).fn = "parseForStmt" -> parseForStmt(p)
      [] Top(p).fn = "parseIfStmt" -> parseIfStmt(p)
      [] Top(p).fn = "parseRepeatStmt" -> parseRepeatStmt(p)
      [] Top(p).fn = "parseWhileStmt" -> parseWhileStmt(p)
      [] Top(p).fn = "parseDoStmt" -> parseDoStmt(p)
      [] Top(p).fn = "parseBlockBody" -> parseBlockBody(p)
      [] Top(p).fn = "parseFuncArgs" -> parseFuncArgs(p)
      [] Top(p).fn = "parseTableCtor" -> parseTableCtor(p)
      [] Top(p).fn = "parsePrimaryExpr" -> parsePrimaryExpr(p)
      [] Top(p).fn = "parsePrefixExpr" -> parsePrefixExpr(p)
      [] Top(p).fn = "parseExprList" -> parseExprList(p)
      [] Top(p).fn = "parseSubexpr" -> parseSubexpr(p)
      [] Top(p).fn = "parseSimpleExpr" -> parseSimpleExpr(p)
      [] Top(p).fn = "parseExpr" -> parseExpr(p)

\* ParseFile is running: a call of next or lookahead, or a parsing function.
Scanning(p) == ~Halted(p) /\ p.pend # ""

Parsing(p) == ~Halted(p) /\ p.pend = "" /\ p.stack # <<>>

\* ParseFile has returned: parseFile has, or error() has panicked.
Returned(p) == Halted(p) \/ (p.pend = "" /\ p.stack = <<>>)

\* The File of `f = &ast.File{Info: info}`.
EmptyFile == [k |-> "File", Body |-> [k |-> "Block", Items |-> <<>>, Seps |-> <<>>], EOFToken |-> 0]

\* The results of parser.ParseFile: f is the File parseFile returned, or the
\* empty File when it did not return to assign it; err is p.err; toks and
\* lines are the tokens and the line table behind f.
ParseFile(p) ==
    [f |-> IF Halted(p) THEN EmptyFile ELSE p.ret,
     toks |-> IF Halted(p) THEN <<>> ELSE p.toks,
     lines |-> p.scanner.lines,
     err |-> p.err]
(***************************************************************************)
(* The tree.  A node is a record whose field k names its Go type; a Token  *)
(* field holds the index of the token in toks, the tokens of the tree (0   *)
(* for a zero Token); a nil pointer or interface is Nil.  A Name is its    *)
(* Token.                                                                  *)
(***************************************************************************)
Tok(toks, id) == IF id = 0 THEN ZeroToken ELSE toks[id]

\* The sequence f as a tuple of its elements.
Tuple(f) == SubSeq(f, 1, Len(f))

\* Concatenation of a sequence of sequences.
RECURSIVE Flat(_)
Flat(ss) ==
    IF Len(ss) = 0 THEN <<>>
    ELSE IF Len(ss) = 1 THEN ss[1]
    ELSE LET h == Len(ss) \div 2
         IN Flat(SubSeq(ss, 1, h)) \o Flat(SubSeq(ss, h + 1, Len(ss)))

\* Elements of a node in the order a traversal meets them: a token (with the
\* index n that Walk passes to VisitToken) or a child node.
T(n, id) == [e |-> "tok", n |-> n, id |-> id]

N(node) == [e |-> "node", node |-> node]

(***************************************************************************)
(* The emitter: copier and the WriteTo methods.  The writer w is a sink    *)
(* with room for w.room more bytes (-1: unbounded); a Write that does not  *)
(* fit writes what fits and fails.  w.calls holds, for every Write call    *)
(* the sink has received, whether it failed.                               *)
(***************************************************************************)
Sink(room) == [out |-> <<>>, room |-> room, calls |-> <<>>]

Buffer == Sink(-1)

\* io.Writer.Write
Write(w, b) ==
    IF w.room < 0 \/ Len(b) <= w.room
    THEN [w |-> [w EXCEPT !.out = @ \o b, !.room = IF @ < 0 THEN @ ELSE @ - Len(b),
                          !.calls = Append(@, FALSE)],
          n |-> Len(b), err |-> FALSE]
    ELSE [w |-> [w EXCEPT !.out = @ \o SubSeq(b, 1, w.room), !.room = 0,
                          !.calls = Append(@, TRUE)],
          n |-> w.room, err |-> TRUE]

\* A copier that forgets the error of the write.
copiedUnchecked(c, r) == [n |-> c.n + r.n, err |-> FALSE, w |-> r.w]

\* copier.write, also copier.writeTo once the callee has run: r is what the
\* write returned.
copied(c, r) == [n |-> c.n + r.n, err |-> r.err, w |-> r.w]

\* Token.WriteTo: the prefixes, then the bytes, until a write fails.
RECURSIVE tokenWrite(_, _)
tokenWrite(c, bs) ==
    IF bs = <<>> \/ c.err THEN c
    ELSE tokenWrite(IF Head(bs) = <<>> THEN c ELSE copied(c, Write(c.w, Head(bs))), Tail(bs))

TokenWriteTo(w, t) ==
    tokenWrite([n |-> 0, err |-> FALSE, w |-> w],
               [i \in 1..Len(t.Prefix) |-> t.Prefix[i].Bytes] \o <<t.Bytes>>)

\* The loop shared by the list writers: each item, then its separator if
\* there is one and it is valid.
WriteList(toks, l) ==
    Flat([i \in 1..Len(l.Items) |->
            <<N(l.Items[i])>> \o
            (IF i <= Len(l.Seps) /\ IsValid(Tok(toks, l.Seps[i]).Type)
             THEN <<T(0, l.Seps[i])>> ELSE <<>>)])

\* The writes of the function writers from the left parenthesis on.
WriteFunc(toks, f) ==
    <<T(0, f.LParenToken)>>
    \o (IF f.Params # Nil
        THEN <<N(f.Params)>> \o (IF IsValid(Tok(toks, f.VarArgSepToken).Type)
                                THEN <<T(0, f.VarArgSepToken), T(0, f.VarArgToken)>>
                                ELSE <<>>)
        ELSE IF IsValid(Tok(toks, f.VarArgToken).Type) THEN <<T(0, f.VarArgToken)>> ELSE <<>>)
    \o <<T(0, f.RParenToken), N(f.Body), T(0, f.EndToken)>>

\* What the WriteTo method of a node writes, in order.
WriteOrder(toks, node) ==
    LET k == node.k
    IN CASE k = "File" -> <<N(node.Body), T(0, node.EOFToken)>>
         [] k \in {"Block", "ExprList", "NameList", "EntryList", "FuncNameList"} ->
              WriteList(toks, node)
         [] k = "Name" -> <<T(0, node.Token)>>
         [] k = "NumberExpr" -> <<T(0, node.NumberToken)>>
         [] k = "StringExpr" -> <<T(0, node.StringToken)>>
         [] k = "NilExpr" -> <<T(0, node.NilToken)>>
         [] k = "BoolExpr" -> <<T(0, node.BoolToken)>>
         [] k = "VarArgExpr" -> <<T(0, node.VarArgToken)>>
         [] k = "UnopExpr" -> <<T(0, node.UnopToken), N(node.Operand)>>
         [] k = "BinopExpr" -> <<N(node.Left), T(0, node.BinopToken), N(node.Right)>>
         [] k = "ParenExpr" -> <<T(0, node.LParenToken), N(node.Value), T(0, node.RParenToken)>>
         [] k = "VariableExpr" -> <<N(node.Name)>>
         [] k = "TableCtor" ->
              <<T(0, node.LBraceToken), N(node.Entries), T(0, node.RBraceToken)>>
         [] k = "IndexEntry" ->
              <<T(0, node.LBrackToken), N(node.Key), T(0, node.RBrackToken),
                T(0, node.AssignToken), N(node.Value)>>
         [] k = "FieldEntry" -> <<N(node.Name), T(0, node.AssignToken), N(node.Value)>>
         [] k = "ValueEntry" -> <<N(node.Value)>>
         [] k = "FunctionExpr" -> <<T(0, node.FuncToken)>> \o WriteFunc(toks, node)
         [] k = "FieldExpr" -> <<N(node.Value), T(0, node.DotToken), N(node.Name)>>
         [] k = "IndexExpr" ->
              <<N(node.Value), T(0, node.LBrackToken), N(node.Index), T(0, node.RBrackToken)>>
         [] k = "MethodExpr" ->
              <<N(node.Value), T(0, node.ColonToken), N(node.Name), N(node.Args)>>
         [] k = "CallExpr" -> <<N(node.Value), N(node.Args)>>
         [] k = "ListArgs" ->
              <<T(0, node.LParenToken)>>
              \o (IF node.Values # Nil THEN <<N(node.Values)>> ELSE <<>>)
              \o <<T(0, node.RParenToken)>>
         [] k \in {"TableArg", "StringArg"} -> <<N(node.Value)>>
         [] k = "DoStmt" -> <<T(0, node.DoToken), N(node.Body), T(0, node.EndToken)>>
         [] k = "AssignStmt" -> <<N(node.Left), T(0, node.AssignToken), N(node.Right)>>
         [] k = "CallStmt" -> <<N(node.Call)>>
         [] k = "IfStmt" ->
              <<T(0, node.IfToken), N(node.Cond), T(0, node.ThenToken), N(node.Body)>>
              \o [i \in 1..Len(node.ElseIf) |-> N(node.ElseIf[i])]
              \o (IF node.Else # Nil THEN <<N(node.Else)>> ELSE <<>>)
              \o <<T(0, node.EndToken)>>
         [] k = "ElseIfClause" ->
              <<T(0, node.ElseIfToken), N(node.Cond), T(0, node.ThenToken), N(node.Body)>>
         [] k = "ElseClause" -> <<T(0, node.ElseToken), N(node.Body)>>
         [] k = "NumericForStmt" ->
              <<T(0, node.ForToken), N(node.Name), T(0, node.AssignToken), N(node.Min),
                T(0, node.MaxSepToken), N(node.Max)>>
              \o (IF IsValid(Tok(toks, node.StepSepToken).Type)
                  THEN <<T(0, node.StepSepToken), N(node.Step)>> ELSE <<>>)
              \o <<T(0, node.DoToken), N(node.Body), T(0, node.EndToken)>>
         [] k = "GenericForStmt" ->
              <<T(0, node.ForToken), N(node.Names), T(0, node.InToken), N(node.Iterator),
                T(0, node.DoToken), N(node.Body), T(0, node.EndToken)>>
         [] k = "WhileStmt" ->
              <<T(0, node.WhileToken), N(node.Cond), T(0, node.DoToken), N(node.Body),
                T(0, node.EndToken)>>
         [] k = "RepeatStmt" ->
              <<T(0, node.RepeatToken), N(node.Body), T(0, node.UntilToken), N(node.Cond)>>
         [] k = "LocalVarStmt" ->
              <<T(0, node.LocalToken), N(node.Names)>>
              \o (IF IsValid(Tok(toks, node.AssignToken).Type)
                  THEN <<T(0, node.AssignToken), N(node.Values)>> ELSE <<>>)
         [] k = "LocalFunctionStmt" ->
              <<T(0, node.LocalToken), T(0, node.Func.FuncToken), N(node.Name)>>
              \o WriteFunc(toks, node.Func)
         [] k = "FunctionStmt" ->
              <<T(0, node.Func.FuncToken), N(node.Name)>> \o WriteFunc(toks, node.Func)
         [] k = "BreakStmt" -> <<T(0, node.BreakToken)>>
         [] k = "ReturnStmt" ->
              <<T(0, node.ReturnToken)>>
              \o (IF node.Values # Nil THEN <<N(node.Values)>> ELSE <<>>)

\* Node.WriteTo: a copier runs over the writes of the node; a write after a
\* failed one is skipped, a nil node writes nothing.
RECURSIVE WriteTo(_, _, _), writeAll(_, _, _)
writeAll(toks, c, es) ==
    IF es = <<>> \/ c.err THEN c
    ELSE LET x == Head(es)
             r == IF x.e = "tok" THEN TokenWriteTo(c.w, Tok(toks, x.id))
                  ELSE WriteTo(toks, c.w, x.node)
         IN writeAll(toks, copied(c, r), Tail(es))

WriteTo(toks, w, node) ==
    IF node = Nil THEN [n |-> 0, err |-> FALSE, w |-> w]
    ELSE writeAll(toks, [n |-> 0, err |-> FALSE, w |-> w], WriteOrder(toks, node))

(***************************************************************************)
(* Walk.  A visitor is a record: kind names its Go type, toks holds the    *)
(* tokens of the tree it walks (VisitToken receives a pointer into them),  *)
(* the other fields are those of the Go struct.                            *)
(***************************************************************************)
\* The VisitToken calls of Walk for the function statements, from the left
\* parenthesis on; n is the index of the first.
WalkFunc(f, n) ==
    <<T(n, f.LParenToken)>>
    \o (IF f.Params # Nil THEN <<N(f.Params)>> ELSE <<>>)
    \o <<T(n + 1, f.VarArgSepToken), T(n + 2, f.VarArgToken), T(n + 3, f.RParenToken),
         N(f.Body), T(n + 4, f.EndToken)>>

\* A loop over Items and Seps that visits each separator before its item.
WalkSepsFirst(l) ==
    Flat([i \in 1..Len(l.Items) |->
            (IF i <= Len(l.Seps) THEN <<T(i - 1, l.Seps[i])>> ELSE <<>>)
            \o (IF l.k \in {"NameList", "FuncNameList"}
                THEN <<T(i - 1, l.Items[i].Token)>>
                ELSE <<N(l.Items[i])>>)])

\* A loop over Items and Seps that hands every token the index of its item.
WalkItemIndexed(l) ==
    Flat([i \in 1..Len(l.Items) |->
            (IF l.k \in {"NameList", "FuncNameList"}
             THEN <<T(i - 1, l.Items[i].Token)>>
             ELSE <<N(l.Items[i])>>)
            \o (IF i <= Len(l.Seps) THEN <<T(i - 1, l.Seps[i])>> ELSE <<>>)])

\* The loops of Walk over Items and Seps: items are nodes for Block, ExprList
\* and EntryList (the separator gets the index of its item), tokens for
\* NameList and FuncNameList (a running index).
WalkList(l) ==
    Flat([i \in 1..Len(l.Items) |->
            (IF l.k \in {"NameList", "FuncNameList"}
             THEN <<T(2 * (i - 1) - (IF i - 1 > Len(l.Seps) THEN i - 1 - Len(l.Seps) ELSE 0),
                      l.Items[i].Token)>>
             ELSE <<N(l.Items[i])>>)
            \o (IF i <= Len(l.Seps)
                THEN <<T(IF l.k \in {"NameList", "FuncNameList"} THEN 2 * (i - 1) + 1 ELSE i - 1,
                         l.Seps[i])>>
                ELSE <<>>)])

\* The switch of Walk: what it visits under a node, in order.  An element
\* "copy" is an ElseIfClause walked through the loop variable of
\* `for _, elif := range node.ElseIf { Walk(v, &elif) }`.
WalkOrder(node) ==
    LET k == node.k
    IN CASE k = "File" -> <<N(node.Body), T(0, node.EOFToken)>>
         [] k \in {"Block", "ExprList", "EntryList", "NameList"} -> WalkList(node)
         [] k = "FuncNameList" ->
              LET n == Len(node.Items) + (IF Len(node.Seps) < Len(node.Items)
                                          THEN Len(node.Seps) ELSE Len(node.Items))
              IN WalkList(node) \o <<T(n + 1, node.ColonToken), T(n + 2, node.Method.Token)>>
         [] k = "NumberExpr" -> <<T(0, node.NumberToken)>>
         [] k = "StringExpr" -> <<T(0, node.StringToken)>>
         [] k = "NilExpr" -> <<T(0, node.NilToken)>>
         [] k = "BoolExpr" -> <<T(0, node.BoolToken)>>
         [] k = "VarArgExpr" -> <<T(0, node.VarArgToken)>>
         [] k = "UnopExpr" -> <<T(0, node.UnopToken), N(node.Operand)>>
         [] k = "BinopExpr" -> <<N(node.Left), T(0, node.BinopToken), N(node.Right)>>
         [] k = "ParenExpr" -> <<T(0, node.LParenToken), N(node.Value), T(1, node.RParenToken)>>
         [] k = "VariableExpr" -> <<T(0, node.Name.Token)>>
         [] k = "TableCtor" ->
              <<T(0, node.LBraceToken), N(node.Entries), T(1, node.RBraceToken)>>
         [] k = "IndexEntry" ->
              <<T(0, node.LBrackToken), N(node.Key), T(1, node.RBrackToken),
                T(2, node.AssignToken), N(node.Value)>>
         [] k = "FieldEntry" -> <<T(0, node.Name.Token), T(1, node.AssignToken), N(node.Value)>>
         [] k = "ValueEntry" -> <<N(node.Value)>>
         [] k = "FunctionExpr" -> <<T(0, node.FuncToken)>> \o WalkFunc(node, 1)
         [] k = "FieldExpr" -> <<N(node.Value), T(0, node.DotToken), T(1, node.Name.Token)>>
         [] k = "IndexExpr" ->
              <<N(node.Value), T(0, node.LBrackToken), N(node.Index), T(1, node.RBrackToken)>>
         [] k = "MethodExpr" ->
              <<N(node.Value), T(0, node.ColonToken), T(1, node.Name.Token), N(node.Args)>>
         [] k = "CallExpr" -> <<N(node.Value), N(node.Args)>>
         [] k = "ListArgs" ->
              <<T(0, node.LParenToken)>>
              \o (IF node.Values # Nil THEN <<N(node.Values)>> ELSE <<>>)
              \o <<T(1, node.RParenToken)>>
         [] k \in {"TableArg", "StringArg"} -> <<N(node.Value)>>
         [] k = "DoStmt" -> <<T(0, node.DoToken), N(node.Body), T(1, node.EndToken)>>
         [] k = "AssignStmt" -> <<N(node.Left), T(0, node.AssignToken), N(node.Right)>>
         [] k = "CallStmt" -> <<N(node.Call)>>
         [] k = "IfStmt" ->
              <<T(0, node.IfToken), N(node.Cond), T(1, node.ThenToken), N(node.Body)>>
              \o [i \in 1..Len(node.ElseIf) |-> [e |-> "copy", node |-> node.ElseIf[i]]]
              \o (IF node.Else # Nil THEN <<N(node.Else)>> ELSE <<>>)
              \o <<T(1, node.EndToken)>>
         [] k = "ElseIfClause" ->
              <<T(0, node.ElseIfToken), N(node.Cond), T(1, node.ThenToken), N(node.Body)>>
         [] k = "ElseClause" -> <<T(0, node.ElseToken), N(node.Body)>>
         [] k = "NumericForStmt" ->
              <<T(0, node.ForToken), T(1, node.Name.Token), T(2, node.AssignToken),
                N(node.Min), T(3, node.MaxSepToken), N(node.Max), T(4, node.StepSepToken)>>
              \o (IF node.Step # Nil THEN <<N(node.Step)>> ELSE <<>>)
              \o <<T(5, node.DoToken), N(node.Body), T(6, node.EndToken)>>
         [] k = "GenericForStmt" ->
              <<T(0, node.ForToken), N(node.Names), T(1, node.InToken), N(node.Iterator),
                T(2, node.DoToken), N(node.Body), T(3, node.EndToken)>>
         [] k = "WhileStmt" ->
              <<T(0, node.WhileToken), N(node.Cond), T(1, node.DoToken), N(node.Body),
                T(2, node.EndToken)>>
         [] k = "RepeatStmt" ->
              <<T(0, node.RepeatToken), N(node.Body), T(1, node.UntilToken), N(node.Cond)>>
         [] k = "LocalVarStmt" ->
              <<T(0, node.LocalToken), N(node.Names), T(1, node.AssignToken)>>
              \o (IF node.Values # Nil THEN <<N(node.Values)>> ELSE <<>>)
         [] k = "LocalFunctionStmt" ->
              <<T(0, node.LocalToken), T(1, node.Func.FuncToken), T(2, node.Name.Token)>>
              \o WalkFunc(node.Func, 3)
         [] k = "FunctionStmt" ->
              <<T(0, node.Func.FuncToken), N(node.Name)>> \o WalkFunc(node.Func, 2)
         [] k = "BreakStmt" -> <<T(0, node.BreakToken)>>
         [] k = "ReturnStmt" ->
              <<T(0, node.ReturnToken)>>
              \o (IF node.Values # Nil THEN <<N(node.Values)>> ELSE <<>>)

\* offsetFixer.scanNewlines: AddLine(r.off + i) for every newline b[i].
RECURSIVE scanNewlines(_, _, _, _)
scanNewlines(lines, off, b, i) ==
    IF i >= Len(b) THEN lines
    ELSE scanNewlines(IF b[i + 1] = "\n" THEN AddLine(lines, off + i) ELSE lines, off, b, i + 1)

\* The loop of offsetFixer.VisitToken over the prefixes (info is the File of
\* the walked tree).
RECURSIVE offsetPrefixes(_, _)
offsetPrefixes(r, pre) ==
    IF pre = <<>> THEN r
    ELSE IF ~IsValid(Head(pre).Type) THEN offsetPrefixes(r, Tail(pre))
    ELSE offsetPrefixes([r EXCEPT !.lines = scanNewlines(@, r.off, Head(pre).Bytes, 0),
                                  !.off = @ + Len(Head(pre).Bytes)], Tail(pre))

\* offsetFixer.VisitToken
\* The end of offsetFixer.VisitToken: r is the visitor after the loop.
offsetToken(r, id) ==
    [r EXCEPT !.lines = scanNewlines(@, r.off, r.toks[id].Bytes, 0),
              !.toks[id].Offset = r.off,
              !.off = @ + Len(r.toks[id].Bytes)]

offsetFixerVisitToken(r, id) ==
    IF ~IsValid(Tok(r.toks, id).Type) THEN r
    ELSE offsetToken(offsetPrefixes(r, r.toks[id].Prefix), id)

\* The ekey_end of Type.AdjoinSeparator: the end of the keywords.
ekey_end == "key_end"

\* Type.AdjoinSeparator: " " or "\n" for the byte to put between, "okay" for
\* -1, "cond" for -2.
TypeAdjoinSeparator(left, right) ==
    LET after(t, mark) == Ord[t] > Ord[mark]
    IN CASE left = "EOF" -> "okay"
         [] ~IsValid(left) \/ ~IsValid(right) -> "okay"
         [] left = "COMMENT" -> IF after(right, "comm_start") THEN "\n" ELSE "okay"
         [] left = "NAME" ->
              IF right = "NAME" \/ IsNumber(right) \/ after(right, "key_start")
              THEN " " ELSE "okay"
         [] IsNumber(left) ->
              IF right \in {"NAME", "DOT", "VARARG"} \/ IsNumber(right)
                 \/ after(right, "key_start")
              THEN " " ELSE "okay"
         [] left = "ASSIGN" -> IF right \in {"ASSIGN", "EQ"} THEN " " ELSE "okay"
         [] left = "DOT" ->
              IF IsNumber(right) \/ right \in {"DOT", "VARARG", "CONCAT"} THEN " " ELSE "okay"
         [] left = "LBRACK" -> IF right \in {"LONGSTRING", "LBRACK"} THEN " " ELSE "okay"
         [] left = "CONCAT" ->
              IF right = "NUMBERFLOAT" THEN "cond" ELSE IF right = "DOT" THEN " " ELSE "okay"
         [] left \in {"LT", "GT"} -> IF right \in {"ASSIGN", "EQ"} THEN " " ELSE "okay"
         [] left \in {"EQ", "NEQ"} -> IF right = "ASSIGN" THEN " " ELSE "okay"
         [] left = "MINUS" -> IF IsComment(right) \/ right = "MINUS" THEN " " ELSE "okay"
         [] after(left, "key_start") ->
              IF right = "NAME" \/ after(right, "key_start") THEN " "
              ELSE IF right = "NUMBERFLOAT" /\ Ord[left] < Ord[ekey_end] THEN "cond"
              ELSE "okay"
         [] OTHER -> "okay"

\* tree.AdjoinSeparator: left and right are tokens (Type and Bytes).
conditional(left, right, c) ==
    LET dot == Len(right.Bytes) > 0 /\ right.Bytes[1] = "."
    IN IF c # "cond" THEN c
       ELSE IF left.Type = "CONCAT" /\ right.Type = "NUMBERFLOAT" /\ ~dot THEN "okay"
       ELSE IF ~(left.Type = "CONCAT" /\ right.Type = "NUMBERFLOAT")
               /\ IsKeyword(left.Type) /\ right.Type = "NUMBERFLOAT" /\ dot THEN "okay"
       ELSE " "

AdjoinSeparator(left, right) ==
    conditional(left, right, TypeAdjoinSeparator(left.Type, right.Type))

\* The loop of adjoinFixer.VisitToken over the prefixes: r.pre is tok.Prefix,
\* r.left the token to the left of pre[i].
\* One turn of that loop, c the separator between r.left and pre[i]: the
\* prefixes, the token to the left of the next one, and the next i.
adjoinPrefix(r, i, c) ==
    LET pre == IF c = "okay" THEN r.pre
               ELSE IF r.pre[i + 1].Type = "SPACE"
                    THEN [r.pre EXCEPT ![i + 1].Bytes = <<c>> \o @]
                    ELSE SubSeq(r.pre, 1, i) \o <<[Type |-> "SPACE", Bytes |-> <<c>>]>>
                         \o SubSeq(r.pre, i + 1, Len(r.pre))
        j == IF c # "okay" /\ r.pre[i + 1].Type # "SPACE" THEN i + 1 ELSE i
    IN [pre |-> pre, left |-> [Type |-> pre[j + 1].Type, Bytes |-> pre[j + 1].Bytes],
        i |-> j + 1]

RECURSIVE adjoinPrefixes(_)
adjoinPrefixes(r) ==
    IF r.i >= Len(r.pre) THEN r
    ELSE adjoinPrefixes(adjoinPrefix(r, r.i, AdjoinSeparator(r.left, r.pre[r.i + 1])))

\* adjoinFixer.VisitToken: prevToken is the index of the token visited last
\* (0: nil).
\* The end of adjoinFixer.VisitToken: pre is the prefixes after the loop, c
\* the separator between the last of them and the token.
adjoinToken(pre, c) ==
    IF c = "okay" THEN pre
    ELSE IF Len(pre) > 0 /\ pre[Len(pre)].Type = "SPACE"
         THEN [pre EXCEPT ![Len(pre)].Bytes = Append(@, c)]
         ELSE Append(pre, [Type |-> "SPACE", Bytes |-> <<c>>])

adjoinedPrefix(r, tok) == adjoinToken(r.pre, AdjoinSeparator(r.left, tok))

adjoinFixerVisitToken(v, id) ==
    IF ~IsValid(Tok(v.toks, id).Type) THEN v
    ELSE IF v.prevToken = 0 THEN [v EXCEPT !.prevToken = id]
    ELSE [v EXCEPT !.toks[id].Prefix =
                       adjoinedPrefix(adjoinPrefixes([pre |-> @, i |-> 0,
                                                      left |-> [Type |-> v.toks[v.prevToken].Type,
                                                                Bytes |-> v.toks[v.prevToken].Bytes]]),
                                      v.toks[id]),
                   !.prevToken = id]

\* minify.VisitToken: tok.Prefix = tok.Prefix[:0] for a valid token.
minifyVisitToken(v, id) ==
    IF ~IsValid(Tok(v.toks, id).Type) THEN v ELSE [v EXCEPT !.toks[id].Prefix = <<>>]

(***************************************************************************)
(* extend.scopeParser.  Scopes and variables are kept in the order of      *)
(* their creation and referred to by their index (0: nil); a name token    *)
(* is referred to by its index in toks.  An item of a scope is a scope or  *)
(* a name token; VariableMap maps a name token to its variable, 0 for a    *)
(* token that is not in the map.                                           *)
(***************************************************************************)
\* scopeParser.init
scopeParserInit(toks) ==
    [kind |-> "scopeParser", toks |-> toks, scopes |-> <<>>, variables |-> <<>>,
     Globals |-> <<>>, Root |-> 0, currentScope |-> 0, position |-> 0,
     VariableMap |-> Tuple([i \in 1..Len(toks) |-> 0])]

\* scopeParser.mark: the new position is the value returned.
mark(p) == [p EXCEPT !.position = @ + 1]

\* scopeParser.openScope with NewScope
openScope(p) ==
    LET id == Len(p.scopes) + 1
        m == mark(p)
        scope == [Parent |-> p.currentScope, Children |-> <<>>, Variables |-> <<>>,
                  Items |-> <<>>, Start |-> m.position, End |-> 0]
        linked == IF p.currentScope = 0 THEN p.scopes
                  ELSE [p.scopes EXCEPT ![p.currentScope].Children = Append(@, id),
                                        ![p.currentScope].Items =
                                            Append(@, [scope |-> id, name |-> 0])]
    IN [m EXCEPT !.scopes = Append(linked, scope), !.currentScope = id]

\* scopeParser.closeScope
closeScope(p) ==
    LET m == mark(p)
        cur == p.scopes[p.currentScope]
        mine == {cur.Variables[i] : i \in 1..Len(cur.Variables)}
    IN [m EXCEPT !.scopes[p.currentScope].End = m.position,
                 !.variables = Tuple([i \in 1..Len(@) |->
                                        IF i \in mine THEN [@[i] EXCEPT !.ScopeEnd = m.position]
                                        ELSE @[i]]),
                 !.currentScope = cur.Parent]

\* scopeParser.addVariableName: v is the index of the variable.
addVariableName(p, v, name) ==
    LET m == mark(p)
    IN [m EXCEPT !.variables[v].References = Append(@, name),
                 !.variables[v].Scopes = Append(@, p.currentScope),
                 !.variables[v].LifeEnd = m.position,
                 !.variables[v].Positions = Append(@, m.position),
                 !.scopes[p.currentScope].Items = Append(@, [scope |-> 0, name |-> name]),
                 !.VariableMap[name] = v]

\* scopeParser.newVariable, with the Type its caller then sets.
newVariable(p, name, type) ==
    LET m == mark(p)
        v == [Type |-> type, Name |-> Tok(p.toks, name).Bytes, References |-> <<>>,
              Scopes |-> <<>>, Positions |-> <<>>, LifeStart |-> m.position,
              LifeEnd |-> 0, ScopeEnd |-> 0]
    IN addVariableName([m EXCEPT !.variables = Append(@, v)], Len(p.variables) + 1, name)

\* scopeParser.addLocalVar
addLocalVar(p, name) ==
    LET n == newVariable(p, name, "LocalVar")
    IN [n EXCEPT !.scopes[p.currentScope].Variables = Append(@, Len(n.variables))]

\* A getLocalVar that looks in the current scope only.
getOwnScopeVar(p, scope, name) ==
    IF scope = 0 THEN 0
    ELSE LET vs == p.scopes[scope].Variables
             hits == {i \in 1..Len(vs) : p.variables[vs[i]].Name = name}
         IN IF hits # {} THEN vs[CHOOSE i \in hits : \A j \in hits : j <= i] ELSE 0

\* scopeParser.getLocalVar: the last variable of that name in the nearest
\* scope that has one, 0 if there is none.
RECURSIVE getLocalVar(_, _, _)
getLocalVar(p, scope, name) ==
    IF scope = 0 THEN 0
    ELSE LET vs == p.scopes[scope].Variables
             hits == {i \in 1..Len(vs) : p.variables[vs[i]].Name = name}
         IN IF hits # {} THEN vs[CHOOSE i \in hits : \A j \in hits : j <= i]
            ELSE getLocalVar(p, p.scopes[scope].Parent, name)

\* scopeParser.addGlobalVar
addGlobalVar(p, name) ==
    LET hits == {i \in 1..Len(p.Globals) :
                   p.variables[p.Globals[i]].Name = Tok(p.toks, name).Bytes}
    IN IF hits # {}
       THEN addVariableName(p, p.Globals[CHOOSE i \in hits : \A j \in hits : i <= j], name)
       ELSE LET n == newVariable(p, name, "GlobalVar")
            IN [n EXCEPT !.Globals = Append(@, Len(n.variables))]

\* A referenceVariable that leaves the names of globals out.
referenceLocal(p, name) ==
    IF getLocalVar(p, p.currentScope, Tok(p.toks, name).Bytes) # 0
    THEN addVariableName(p, getLocalVar(p, p.currentScope, Tok(p.toks, name).Bytes), name)
    ELSE p

\* scopeParser.referenceVariable
referenceVariable(p, name) ==
    LET v == getLocalVar(p, p.currentScope, Tok(p.toks, name).Bytes)
    IN IF v # 0 THEN addVariableName(p, v, name) ELSE addGlobalVar(p, name)

RECURSIVE Walk(_, _), walkVisited(_, _), walkAll(_, _, _), walkEach(_, _), scopeClauses(_, _), addLocalVars(_, _, _)

\* Consecutive calls Walk(p, node) of a Visit method, each under the guard
\* `node != nil`.
walkEach(p, nodes) ==
    IF nodes = <<>> THEN p
    ELSE walkEach(IF Head(nodes) = Nil THEN p ELSE Walk(p, Head(nodes)), Tail(nodes))

\* The loop of scopeParser.Visit over the elseif clauses of an IfStmt.
scopeClauses(p, clauses) ==
    IF clauses = <<>> THEN p
    ELSE scopeClauses(Walk(openScope(closeScope(p)), Head(clauses)), Tail(clauses))

\* The loop of scopeParser.Visit over the names of a NameList.
addLocalVars(p, items, i) ==
    IF i > Len(items) THEN p ELSE addLocalVars(addLocalVar(p, items[i].Token), items, i + 1)

\* scopeParser.Visit: v is the parser after the call, w tells whether the
\* call returned a visitor (the parser) or nil.
scopeParserVisit(p, node) ==
    LET k == node.k
        done(q) == [v |-> q, w |-> FALSE]
    IN CASE k = "File" ->
              LET o == openScope(p)
              IN done(closeScope(Walk([o EXCEPT !.Root = o.currentScope], node.Body)))
         [] k = "NameList" -> done(addLocalVars(p, node.Items, 1))
         [] k = "VariableExpr" -> done(referenceVariable(p, node.Name.Token))
         [] k = "FunctionExpr" ->
              done(closeScope(walkEach(openScope(p), <<node.Params, node.Body>>)))
         [] k = "DoStmt" -> done(closeScope(Walk(openScope(p), node.Body)))
         [] k = "IfStmt" ->
              LET b == walkEach(openScope(p), <<node.Cond, node.Body>>)
                  c == scopeClauses(b, node.ElseIf)
                  e == IF node.Else # Nil THEN Walk(openScope(closeScope(c)), node.Else) ELSE c
              IN done(closeScope(e))
         [] k = "NumericForStmt" ->
              LET r == closeScope(walkEach(openScope(p), <<node.Min, node.Max, node.Step>>))
              IN done(closeScope(Walk(addLocalVar(openScope(r), node.Name.Token), node.Body)))
         [] k = "GenericForStmt" ->
              LET r == closeScope(Walk(openScope(p), node.Iterator))
              IN done(closeScope(walkEach(openScope(r), <<node.Names, node.Body>>)))
         [] k = "WhileStmt" ->
              done(closeScope(walkEach(openScope(p), <<node.Cond, node.Body>>)))
         [] k = "RepeatStmt" ->
              done(closeScope(walkEach(openScope(p), <<node.Body, node.Cond>>)))
         [] k = "LocalVarStmt" -> done(walkEach(p, <<node.Values, node.Names>>))
         [] k = "LocalFunctionStmt" -> done(Walk(addLocalVar(p, node.Name.Token), node.Func))
         [] k = "FunctionStmt" -> done(walkEach(p, <<node.Name, node.Func>>))
         [] k = "FuncNameList" -> done(referenceVariable(p, node.Items[1].Token))
         [] OTHER -> [v |-> p, w |-> TRUE]

\* What a pointer handed to VisitToken with a node refers to: an element of
\* the Items of a list of names, an element of its Seps, or another field.
Role(node, id) ==
    IF node.k \notin {"NameList", "FuncNameList"} THEN "field"
    ELSE IF \E i \in 1..Len(node.Items) : node.Items[i].Token = id THEN "item"
    ELSE IF \E i \in 1..Len(node.Seps) : node.Seps[i] = id THEN "sep"
    ELSE "field"

\* A TokenVisitor of a client.  Its VisitToken notes the type and the offset
\* of the token it is handed, the type of the node, the index n and what the
\* pointer refers to; its Visit notes the type of the node ("nil" for a nil
\* node) and returns the visitor.
tokenLogVisitToken(v, node, n, id) ==
    [v EXCEPT !.seen = Append(@, [Type |-> Tok(v.toks, id).Type,
                                   Offset |-> Tok(v.toks, id).Offset,
                                   Node |-> node.k, N |-> n, Id |-> id,
                                   Role |-> Role(node, id)])]

tokenLogVisit(v, node) == [v |-> [v EXCEPT !.visits = Append(@, node.k)], w |-> TRUE]

\* Visitor.Visit, by the type of the visitor.
Visit(v, node) ==
    CASE v.kind = "scopeParser" -> scopeParserVisit(v, node)
      [] v.kind = "tokenLog" -> tokenLogVisit(v, node)
      [] OTHER -> [v |-> v, w |-> TRUE]

\* TokenVisitor.VisitToken, by the type of the visitor; id is the place of
\* the token in v.toks.
VisitToken(v, node, n, id) ==
    CASE v.kind = "tokenLog" -> tokenLogVisitToken(v, node, n, id)
      [] v.kind = "offsetFixer" -> offsetFixerVisitToken(v, id)
      [] v.kind = "adjoinFixer" -> adjoinFixerVisitToken(v, id)
      [] v.kind = "minify" -> minifyVisitToken(v, id)

\* The type assertion v.(TokenVisitor).
IsTokenVisitor(v) == v.kind \in {"tokenLog", "offsetFixer", "adjoinFixer", "minify"}

\* tree.Walk once v.Visit(node) has returned r: the visits under the node
\* unless the visitor returned is nil.
walkVisited(r, node) == IF ~r.w THEN r.v ELSE walkAll(r.v, node, WalkOrder(node))

\* tree.Walk
Walk(v, node) == walkVisited(Visit(v, node), node)

\* The visits of Walk under a node.  The loop variable elif is a copy of the
\* clause: its two Tokens are fresh places in toks, its Cond and Body are
\* those of the clause.
walkAll(v, node, es) ==
    IF es = <<>> THEN v
    ELSE LET x == Head(es)
             n == Len(v.toks)
             v1 == CASE x.e = "tok" ->
                          IF IsTokenVisitor(v) THEN VisitToken(v, node, x.n, x.id) ELSE v
                     [] x.e = "node" -> IF x.node = Nil THEN v ELSE Walk(v, x.node)
                     [] x.e = "copy" ->
                          Walk([v EXCEPT !.toks = @ \o <<Tok(@, x.node.ElseIfToken),
                                                         Tok(@, x.node.ThenToken)>>],
                               [x.node EXCEPT !.ElseIfToken = n + 1, !.ThenToken = n + 2])
         IN walkAll(v1, node, Tail(es))

(***************************************************************************)
(* The tools.  A tree is the File node f with the tokens toks its nodes    *)
(* refer to and the line table lines of its Info.                          *)
(***************************************************************************)
\* The tree a visitor leaves: the copies Walk made are dropped.
Walked(tree, v) == [tree EXCEPT !.toks = SubSeq(v.toks, 1, Len(tree.toks))]

\* tree.FixTokenOffsets for a File.
offsetsFixed(tree, r) == [Walked(tree, r) EXCEPT !.lines = r.lines]

FixTokenOffsets(tree, offset) ==
    offsetsFixed(tree, Walk([kind |-> "offsetFixer", toks |-> tree.toks,
                             lines |-> ClearLines(tree.lines), off |-> offset], tree.f))

\* tree.FixAdjoinedTokens
FixAdjoinedTokens(tree) ==
    Walked(tree, Walk([kind |-> "adjoinFixer", toks |-> tree.toks, prevToken |-> 0], tree.f))

\* tree.Walk(v, file) with the TokenVisitor of a client: the visitor after
\* the walk, and the tokens it has noted.
WalkLogged(tree) ==
    Walk([kind |-> "tokenLog", toks |-> tree.toks, seen |-> <<>>, visits |-> <<>>], tree.f)

WalkTokens(tree) == WalkLogged(tree).seen

\* extend.BuildFileScope
BuildFileScope(tree) == Walk(scopeParserInit(tree.toks), tree.f)

(***************************************************************************)
(* format: identifiers and Minify.                                         *)
(***************************************************************************)
chars ==
    <<"a","b","c","d","e","f","g","h","i","j","k","l","m","n","o","p","q","r","s","t","u","v",
       "w","x","y","z","A","B","C","D","E","F","G","H","I","J","K","L","M","N","O","P","Q","R",
       "S","T","U","V","W","X","Y","Z","_","0","1","2","3","4","5","6","7","8","9">>

second == Len(chars)

first == second - 10

maxIdentIndex == 2147483647

maxIdentLength == 6

\* charIndex: the place of a byte in chars, -1 for a byte that is not there.
charIndex(ch) ==
    IF \E i \in 1..second : chars[i] = ch THEN (CHOOSE i \in 1..second : chars[i] = ch) - 1
    ELSE -1

\* powInt
RECURSIVE powInt(_, _)
powInt(x, y) == IF y <= 0 THEN 1 ELSE x * powInt(x, y - 1)

\* The first loop of GenerateIdent: the length of the identifier and the
\* index within the identifiers of that length.  Go's int has 64 bits; the
\* last t, first * second^(maxIdentLength-1), is above maxIdentIndex and so
\* above n, and the loop ends with it.
RECURSIVE identLength(_, _, _, _, _)
identLength(i, t, n, index, length) ==
    IF i > n THEN [index |-> index, length |-> length]
    ELSE IF length >= maxIdentLength - 1 THEN [index |-> index - t, length |-> length + 1]
    ELSE LET t1 == first * powInt(second, length)
         IN identLength(i + t1, t1, n, index - t, length + 1)

\* A second loop that writes the same byte at every place.
RECURSIVE identTailFlat(_, _)
identTailFlat(n, k) ==
    IF k <= 0 THEN <<>> ELSE <<chars[(n % second) + 1]>> \o identTailFlat(n, k - 1)

\* The second loop of GenerateIdent: the bytes after the first.
RECURSIVE identTail(_, _)
identTail(n, k) ==
    IF k <= 0 THEN <<>>
    ELSE <<chars[(n % second) + 1]>> \o identTail((n - (n % second)) \div second, k - 1)

\* GenerateIdent
GenerateIdent(index) ==
    IF index < 0 \/ index > maxIdentIndex THEN <<>>
    ELSE LET r == identLength(0, 0, index, index, 0)
             d == r.index % first
         IN <<chars[d + 1]>> \o identTail((r.index - d) \div first, r.length - 1)

\* n += m in IdentIndex, m >= 0.  Go's int has 64 bits and n never wraps;
\* here n stays within maxIdentIndex and over tells that Go's n is above it.
addIndex(r, m) ==
    IF r.over \/ m > maxIdentIndex - r.n THEN [r EXCEPT !.over = TRUE]
    ELSE [r EXCEPT !.n = @ + m]

\* n += p * c in IdentIndex, c the charIndex of a byte of a name.
addTerm(r, p, c) ==
    IF c > 0 /\ p > maxIdentIndex \div c THEN [r EXCEPT !.over = TRUE]
    ELSE addIndex(r, p * c)

\* The loop of IdentIndex over the bytes from the third on: r.n and r.x, where
\* x = second * p / (second - 1) is p + p / (second - 1).
RECURSIVE identSum(_, _, _)
identSum(str, i, r) ==
    IF i >= Len(str) THEN r
    ELSE LET p == first * powInt(second, i - 1)
         IN identSum(str, i + 1, [addTerm(r, p, charIndex(str[i + 1]))
                                     EXCEPT !.x = p + p \div (second - 1)])

\* IdentIndex
IdentIndex(str) ==
    IF str = <<>> \/ Len(str) > maxIdentLength THEN -1
    ELSE LET n0 == charIndex(str[1])
         IN IF n0 < 0 \/ n0 >= first THEN -1
            ELSE IF Len(str) = 1 THEN n0
            ELSE LET p == first * powInt(second, 0)
                     r0 == [n |-> n0, over |-> FALSE, x |-> (first * p) \div (first - 1) - 1]
                     r == identSum(str, 2, addTerm(r0, p, charIndex(str[2])))
                     n == addIndex(r, r.x)
                 IN IF n.over \/ n.n < 0 THEN -1 ELSE n.n

\* scopeContains
RECURSIVE scopeContains(_, _, _)
scopeContains(fs, scope, v) ==
    \E i \in 1..Len(fs.scopes[scope].Items) :
        LET item == fs.scopes[scope].Items[i]
        IN IF item.scope = 0 THEN fs.VariableMap[item.name] = v
           ELSE scopeContains(fs, item.scope, v)

\* descendItems(fs.scopes[scope].Items[from+1:], cb): the places the callback
\* is called with, in order; a place is an item list (that of scope s) and an
\* index i into it.
RECURSIVE descendItems(_, _, _)
descendItems(fs, scope, from) ==
    LET items == fs.scopes[scope].Items
    IN Flat([j \in 1..(Len(items) - from) |->
               <<[s |-> scope, i |-> from + j]>>
               \o (IF items[from + j].scope # 0 THEN descendItems(fs, items[from + j].scope, 0)
                   ELSE <<>>)])

\* The scopes among the items descendItems meets.
descendScopes(fs, scope, from) ==
    LET ps == descendItems(fs, scope, from)
    IN {fs.scopes[ps[i].s].Items[ps[i].i].scope : i \in 1..Len(ps)} \ {0}

\* A variable that is not in varIndexes.
NoIndex == -2

\* A Variable.VisiblityOverlapsWith that finds no two variables to overlap.
NeverOverlapsWith(v, w) == FALSE

\* Variable.VisiblityOverlapsWith
VisiblityOverlapsWith(v, w) == v.ScopeEnd >= w.LifeStart /\ v.LifeStart <= w.ScopeEnd

\* The keyword loop of Minify: the indexes of the keywords that have one.
keywordIndexes == {IdentIndex(KeywordTable[i][2]) : i \in 1..Len(KeywordTable)} \ {-1}

\* usedIndexes after the keyword loop of Minify: the nil marker (0) under
\* every scope that descendItems(fileScope.Root.Items) meets.
markKeywords(fs) == [k \in descendScopes(fs, fs.Root, 0) \X keywordIndexes |-> 0]

\* The assignments usedIndexes[indexKey{scope, index}] = variable of one
\* variable: its first scope and the scopes among those descendItems meets
\* from item `from` of scope `s` on that contain it.
markVariable(fs, used, v, index, s, from) ==
    LET reach == {fs.variables[v].Scopes[1]}
                 \cup {c \in descendScopes(fs, s, from) : scopeContains(fs, c, v)}
    IN [k \in reach \X {index} |-> v] @@ used

\* The loop of Minify over fileScope.Globals.
RECURSIVE markGlobals(_, _, _)
markGlobals(fs, st, i) ==
    IF i > Len(fs.Globals) THEN st
    ELSE LET g == fs.Globals[i]
             index == IdentIndex(fs.variables[g].Name)
         IN markGlobals(fs, [usedIndexes |-> markVariable(fs, st.usedIndexes, g, index,
                                                          fs.Root, 0),
                             varIndexes |-> [st.varIndexes EXCEPT ![g] = index]], i + 1)

\* The test of the loop `for ; ; index++` of Minify: index is not used in the
\* first scope of the variable, or is used by a variable whose visibility
\* does not overlap.
available(fs, used, v, key) ==
    IF key \notin DOMAIN used THEN TRUE
    ELSE used[key] # 0 /\ ~VisiblityOverlapsWith(fs.variables[v], fs.variables[used[key]])

\* The least element of a set of integers.
least(S) == CHOOSE i \in S : \A j \in S : i <= j

\* The loop `for ; ; index++` of Minify: the first index from `index` on that
\* passes the test.  One of the first n + 1 passes it, n the number of keys
\* of usedIndexes.
availableIndex(fs, used, v, index) ==
    least({i \in index..(index + Cardinality(DOMAIN used)) :
              available(fs, used, v, <<fs.variables[v].Scopes[1], i>>)})

\* The end of that callback: v has got index.
assigned(fs, st, place, v, index) ==
    [usedIndexes |-> markVariable(fs, st.usedIndexes, v, index, place.s, place.i),
     varIndexes |-> [st.varIndexes EXCEPT ![v] = index]]

\* One call of the callback Minify passes to descendItems for the locals.
assignLocal(fs, st, place) ==
    LET item == fs.scopes[place.s].Items[place.i]
        v == fs.VariableMap[item.name]
    IN IF item.scope # 0 THEN st
       ELSE IF fs.variables[v].Type # "LocalVar" THEN st
       ELSE IF st.varIndexes[v] # NoIndex THEN st
       ELSE assigned(fs, st, place, v, availableIndex(fs, st.usedIndexes, v, 0))

\* The loop of Minify over the locals.
RECURSIVE assignLocals(_, _, _, _)
assignLocals(fs, st, places, i) ==
    IF i > Len(places) THEN st
    ELSE assignLocals(fs, assignLocal(fs, st, places[i]), places, i + 1)

\* The three loops of Minify that fill usedIndexes and varIndexes.
assignIndexes(fs) ==
    LET st0 == [usedIndexes |-> markKeywords(fs),
                varIndexes |-> Tuple([v \in 1..Len(fs.variables) |-> NoIndex])]
    IN assignLocals(fs, markGlobals(fs, st0, 1), descendItems(fs, fs.Root, 0), 1)

\* The loop of Minify over varIndexes: the name of each local is generated
\* from its index and written to the tokens that refer to it.
renameLocals(fs, varIndexes, toks) ==
    Tuple([id \in 1..Len(toks) |->
              LET v == fs.VariableMap[id]
              IN IF v # 0 /\ fs.variables[v].Type = "LocalVar" /\ varIndexes[v] # NoIndex
                 THEN [toks[id] EXCEPT !.Bytes = GenerateIdent(varIndexes[v])]
                 ELSE toks[id]])

\* The loop of Minify over varIndexes: variable.Name of each variable after it.
variableNames(fs, varIndexes) ==
    Tuple([v \in 1..Len(fs.variables) |->
              IF fs.variables[v].Type = "LocalVar" /\ varIndexes[v] # NoIndex
              THEN GenerateIdent(varIndexes[v]) ELSE fs.variables[v].Name])

\* `var m minify; tree.Walk(&m, file)` of Minify
StripPrefixes(tree) == Walked(tree, Walk([kind |-> "minify", toks |-> tree.toks], tree.f))

\* format.Minify: the tree it leaves, with the file scope as BuildFileScope
\* built it, the two maps, and names: the Name of each variable once the
\* loop over varIndexes has run.
minified(tree, fs, st) ==
    [tree |-> FixTokenOffsets(
                  FixAdjoinedTokens(
                      StripPrefixes([tree EXCEPT !.toks = renameLocals(fs, st.varIndexes, @)])),
                  0),
     fs |-> fs, usedIndexes |-> st.usedIndexes, varIndexes |-> st.varIndexes,
     names |-> variableNames(fs, st.varIndexes)]

scoped(tree, fs) == minified(tree, fs, assignIndexes(fs))

Minify(tree) == scoped(tree, BuildFileScope(tree))

(***************************************************************************)
(* Measures of a tree: what its File writes, token by token, and what the  *)
(* scanner makes of a sequence of bytes.                                   *)
(***************************************************************************)
\* The bytes File.WriteTo writes to a buffer that takes them all.
Emitted(tree) == WriteTo(tree.toks, Buffer, tree.f).w.out

\* The tokens the WriteTo of a node writes, in the order of the writes.
RECURSIVE WriteTokens(_, _)
WriteTokens(toks, node) ==
    IF node = Nil THEN <<>>
    ELSE LET es == WriteOrder(toks, node)
         IN Flat([i \in 1..Len(es) |->
                    IF es[i].e = "node" THEN WriteTokens(toks, es[i].node)
                    ELSE IF es[i].id = 0 THEN <<>> ELSE <<es[i].id>>])

\* The bytes Token.WriteTo writes for the prefixes of a token.
PrefixBytes(t) == Flat([i \in 1..Len(t.Prefix) |-> t.Prefix[i].Bytes])


\* A whole Scan call: the steps from the call to its return.  A call still
\* running after MaxScanSteps steps is left where it is (pc # "idle").
MaxScanSteps == 60

RECURSIVE RunScan(_, _)
RunScan(s, fuel) ==
    LET s1 == ScanStep(s)
    IN IF s1.pc = "idle" \/ fuel = 0 THEN s1 ELSE RunScan(s1, fuel - 1)

\* The tokens Scan returns for a source up to EOF, as pairs of type and
\* bytes; a last pair "HANG" stands for a call that does not return.
RECURSIVE scanAll(_)
scanAll(s) ==
    LET r == RunScan(s, MaxScanSteps)
    IN IF r.pc # "idle" THEN << <<"HANG", <<>> >> >>
       ELSE IF r.tok = "EOF" THEN <<>>
       ELSE << <<r.tok, r.lit>> >> \o scanAll(r)

\* The tokens of a source that are not prefix tokens.
Lexemes(src) ==
    SelectSeq(scanAll(ScannerInit(src, NewFile)), LAMBDA t : ~IsPrefix(t[1]))

\* The offsets that follow a newline of a sequence of bytes, in order.
AfterNewlines(b) ==
    LET at == {i \in 1..Len(b) : b[i] = "\n"}
        RECURSIVE upTo(_)
        upTo(i) == IF i = 0 THEN <<>>
                   ELSE IF i \in at THEN Append(upTo(i - 1), i) ELSE upTo(i - 1)
    IN upTo(Len(b))

(***************************************************************************)
(* The corpus: sources a client hands to ParseFile.                        *)
(***************************************************************************)
\* a = 1 local x = 2
Src1 ==
    <<"a"," ","="," ","1"," ","l","o","c","a","l"," ","x"," ","="," ","2">>

\* local x = 1 do local y = 2 end
Src2 ==
    <<"l","o","c","a","l"," ","x"," ","="," ","1"," ","d","o"," ","l","o","c","a","l"," ","y"," ",
      "="," ","2"," ","e","n","d">>

\* local x = 1 do local y = 2 print(x, y) end
Src3 ==
    <<"l","o","c","a","l"," ","x"," ","="," ","1"," ","d","o"," ","l","o","c","a","l"," ","y"," ",
      "="," ","2"," ","p","r","i","n","t","(","x",","," ","y",")"," ","e","n","d">>

\* if a then b() elseif c then d() else e() end
Src4 ==
    <<"i","f"," ","a"," ","t","h","e","n"," ","b","(",")"," ","e","l","s","e","i","f"," ","c"," ",
      "t","h","e","n"," ","d","(",")"," ","e","l","s","e"," ","e","(",")"," ","e","n","d">>

\* f "x"
Src5 ==
    <<"f"," ","\"","x","\"">>

\* function a.b:c(p, ...) return p end
Src6 ==
    <<"f","u","n","c","t","i","o","n"," ","a",".","b",":","c","(","p",","," ",".",".",".",")"," ",
      "r","e","t","u","r","n"," ","p"," ","e","n","d">>

\* --[ text\nx = 1
Src7 ==
    <<"-","-","["," ","t","e","x","t","\n","x"," ","="," ","1">>

\* x = 1 .. 2
Src8 ==
    <<"x"," ","="," ","1"," ",".","."," ","2">>

\* return 0x10
Src9 ==
    <<"r","e","t","u","r","n"," ","0","x","1","0">>

\* a = 1 b =
Src10 ==
    <<"a"," ","="," ","1"," ","b"," ","=">>

\* x = "abc\ny = 2 +
Src11 ==
    <<"x"," ","="," ","\"","a","b","c","\n","y"," ","="," ","2"," ","+">>

\* for i = 1, 10, 2 do x = x + i end
Src12 ==
    <<"f","o","r"," ","i"," ","="," ","1",","," ","1","0",","," ","2"," ","d","o"," ","x"," ","=",
      " ","x"," ","+"," ","i"," ","e","n","d">>

\* for k, v in pairs(t) do break end
Src13 ==
    <<"f","o","r"," ","k",","," ","v"," ","i","n"," ","p","a","i","r","s","(","t",")"," ","d","o",
      " ","b","r","e","a","k"," ","e","n","d">>

\* while not a do repeat local function g() end until a == b end
Src14 ==
    <<"w","h","i","l","e"," ","n","o","t"," ","a"," ","d","o"," ","r","e","p","e","a","t"," ","l",
      "o","c","a","l"," ","f","u","n","c","t","i","o","n"," ","g","(",")"," ","e","n","d"," ","u",
      "n","t","i","l"," ","a"," ","=","="," ","b"," ","e","n","d">>

\* --[[ c ]] x = -y[1].z:m{} -- end\n
Src15 ==
    <<"-","-","[","["," ","c"," ","]","]"," ","x"," ","="," ","-","y","[","1","]",".","z",":","m",
      "{","}"," ","-","-"," ","e","n","d","\n">>

\* local t = {a = 1; [2] = 3, 4}\nreturn t
Src16 ==
    <<"l","o","c","a","l"," ","t"," ","="," ","{","a"," ","="," ","1",";"," ","[","2","]"," ","=",
      " ","3",","," ","4","}","\n","r","e","t","u","r","n"," ","t">>

\* local do_ = 1; print(do_)
Src17 ==
    <<"l","o","c","a","l"," ","d","o","_"," ","="," ","1",";"," ","p","r","i","n","t","(","d","o",
      "_",")">>

\* x = 1\ny = 2\n
Src18 ==
    <<"x"," ","="," ","1","\n","y"," ","="," ","2","\n">>

\* f(1,)
Src19 ==
    <<"f","(","1",",",")">>

\* local x do local y do print(x, y) end end
Src20 ==
    <<"l","o","c","a","l"," ","x"," ","d","o"," ","l","o","c","a","l"," ","y"," ","d","o"," ","p",
      "r","i","n","t","(","x",","," ","y",")"," ","e","n","d"," ","e","n","d">>

\* if a then local p = 1 elseif c then local q = 2 end
Src21 ==
    <<"i","f"," ","a"," ","t","h","e","n"," ","l","o","c","a","l"," ","p"," ","="," ","1"," ","e",
      "l","s","e","i","f"," ","c"," ","t","h","e","n"," ","l","o","c","a","l"," ","q"," ","="," ",
      "2"," ","e","n","d">>

\* local s = 'a\n' .. [[b]]
Src22 ==
    <<"l","o","c","a","l"," ","s"," ","="," ","'","a","\\","n","'"," ",".","."," ","[","[","b",
      "]","]">>

\* local x = x local x = x do local x = x end y = x
Src23 ==
    <<"l","o","c","a","l"," ","x"," ","="," ","x"," ","l","o","c","a","l"," ","x"," ","="," ",
      "x"," ","d","o"," ","l","o","c","a","l"," ","x"," ","="," ","x"," ","e","n","d"," ","y",
      " ","="," ","x">>

\* x = a - b - c * -d ^ e ^ f
Src24 ==
    <<"x", " ", "=", " ", "a", " ", "-", " ", "b", " ", "-", " ", "c", " ", "*", " ", "-", "d",
      " ", "^", " ", "e", " ", "^", " ", "f">>

\* x = not a == b .. c .. d and e or f
Src25 ==
    <<"x", " ", "=", " ", "n", "o", "t", " ", "a", " ", "=", "=", " ", "b", " ", ".", ".", " ",
      "c", " ", ".", ".", " ", "d", " ", "a", "n", "d", " ", "e", " ", "o", "r", " ", "f">>

\* The sources of the corpus.
\* return end x
Src26 == <<"r","e","t","u","r","n"," ","e","n","d"," ","x">>

Corpus ==
    {Src1, Src2, Src3, Src4, Src5, Src6, Src7, Src8, Src9, Src10, Src11, Src12, Src13, Src14,
     Src15, Src16, Src17, Src18, Src19, Src20, Src21, Src22, Src23, Src24,
     Src25, Src26}

\* The sources of the corpus that are valid Lua 5.1 programs.
ValidLua ==
    {Src1, Src2, Src3, Src4, Src5, Src6, Src7, Src8, Src9, Src12, Src13, Src14, Src15, Src16,
     Src17, Src18, Src20, Src21, Src22, Src23, Src24,
     Src25}


(***************************************************************************)
(* Spec: a client parses a source of the corpus and calls the tools on the *)
(* tree it got, up to MaxOps calls.  run.p is the parser of the ParseFile  *)
(* call, run.calls names the calls made after ParseFile has returned,      *)
(* run.res is what ParseFile returned, run.tree the tree as the tools left *)
(* it, run.out what the last WriteTo returned (n, err) with the sink w as  *)
(* it left it, run.min the file scope, the maps and the names of the last  *)
(* Minify, run.seen what the TokenVisitor of the last Walk has noted.      *)
(***************************************************************************)
MaxOps == 2

\* The sinks a client hands to WriteTo: a buffer, and sinks that fail once
\* they hold up to MaxRoom bytes.
MaxRoom == 6

Rooms == {-1} \cup 0..MaxRoom

\* The tree ParseFile returned.
TreeOf(res) == [f |-> res.f, toks |-> res.toks, lines |-> res.lines]

\* The client as it calls parser.ParseFile(filename, src, 0).
Unparsed(src) ==
    [src |-> src, p |-> init(src), parsed |-> FALSE, calls |-> <<>>, res |-> Nil, tree |-> Nil,
     out |-> Nil, min |-> Nil, seen |-> <<>>, visits |-> <<>>]

Init ==
    /\ \E src \in Corpus : run = Unparsed(src)
    /\ sc = Nil
    /\ emitted = <<>>
    /\ mf = Nil
    /\ fd = Nil
    /\ gi = Nil
    /\ lk = Nil
    /\ ls = Nil

\* The client may call a tool: ParseFile has returned, and it has made fewer
\* than MaxOps calls.
CanCall == run.parsed /\ Len(run.calls) < MaxOps

\* A tool is called on the tree of a parse that reported no error.
CanTransform == CanCall /\ run.res.err = NoErr

\* The client after the call op.
called(r, op) == [r EXCEPT !.calls = Append(@, op)]

\* parser.next, a step of the Scan call it makes included.
NextStep ==
    /\ ~run.parsed
    /\ Scanning(run.p)
    /\ run' = [run EXCEPT !.p = next(@)]
    /\ UNCHANGED <<sc, emitted, mf, fd, gi, lk, ls>>

\* A step of the parse method that runs.
ParseStep ==
    /\ ~run.parsed
    /\ Parsing(run.p)
    /\ run' = [run EXCEPT !.p = parseStep(@)]
    /\ UNCHANGED <<sc, emitted, mf, fd, gi, lk, ls>>

\* The client after ParseFile has returned res.
parsedAs(r, res) == [r EXCEPT !.parsed = TRUE, !.res = res, !.tree = TreeOf(res)]

\* parser.ParseFile returns: the parse is over, or an error has bailed out.
ParseReturn ==
    /\ ~run.parsed
    /\ Returned(run.p)
    /\ run' = parsedAs(run, ParseFile(run.p))
    /\ UNCHANGED <<sc, emitted, mf, fd, gi, lk, ls>>

\* file.WriteTo(w)
EmitCall ==
    /\ CanCall
    /\ \E room \in Rooms :
           run' = [called(run, "emit") EXCEPT !.out = WriteTo(run.tree.toks, Sink(room), run.tree.f)]
    /\ UNCHANGED <<sc, emitted, mf, fd, gi, lk, ls>>

\* tree.FixTokenOffsets(file, 0)
ReflowCall ==
    /\ CanTransform
    /\ run' = [called(run, "reflow") EXCEPT !.tree = FixTokenOffsets(@, 0)]
    /\ UNCHANGED <<sc, emitted, mf, fd, gi, lk, ls>>

\* tree.FixAdjoinedTokens(file)
AdjoinCall ==
    /\ CanTransform
    /\ run' = [called(run, "adjoin") EXCEPT !.tree = FixAdjoinedTokens(@)]
    /\ UNCHANGED <<sc, emitted, mf, fd, gi, lk, ls>>

\* The client after tree.Walk(v, file) has left its visitor v.
walkedAs(r, v) == [r EXCEPT !.seen = v.seen, !.visits = v.visits]

\* tree.Walk(v, file) with the TokenVisitor of the client.
WalkCall ==
    /\ CanTransform
    /\ run' = walkedAs(called(run, "walk"), WalkLogged(run.tree))
    /\ UNCHANGED <<sc, emitted, mf, fd, gi, lk, ls>>

\* tree.Walk(&m, file) with the visitor of Minify.
StripCall ==
    /\ CanTransform
    /\ run' = [called(run, "strip") EXCEPT !.tree = StripPrefixes(@)]
    /\ UNCHANGED <<sc, emitted, mf, fd, gi, lk, ls>>

\* The client after format.Minify(file) has left m.
minifiedAs(r, m) ==
    [r EXCEPT !.tree = m.tree,
              !.min = [fs |-> m.fs, usedIndexes |-> m.usedIndexes, varIndexes |-> m.varIndexes,
                       names |-> m.names]]

\* format.Minify(file)
MinifyCall ==
    /\ CanTransform
    /\ run' = minifiedAs(called(run, "minify"), Minify(run.tree))
    /\ UNCHANGED <<sc, emitted, mf, fd, gi, lk, ls>>

Next ==
    \/ NextStep
    \/ ParseStep
    \/ ParseReturn
    \/ EmitCall
    \/ ReflowCall
    \/ AdjoinCall
    \/ WalkCall
    \/ StripCall
    \/ MinifyCall

Spec == Init /\ [][Next]_vars

(***************************************************************************)
(* ScanSpec: a client calls Scan until it returns EOF.  The sources cover  *)
(* every branch of the scanner, finished and unfinished tokens alike.      *)
(***************************************************************************)
\* x1 = 0x1F + .5e-3 - 12.5E+2z
ScanSrc1 ==
    <<"x","1"," ","="," ","0","x","1","F"," ","+"," ",".","5","e","-","3"," ","-"," ","1","2",".",
      "5","E","+","2","z">>

\* s = "a\"b\065c\\nd" .. 'q'
ScanSrc2 ==
    <<"s"," ","="," ","\"","a","\\","\"","b","\\","0","6","5","c","\\","\n","d","\""," ",".",".",
      " ","'","q","'">>

\* --[==[ c ]] ]==]\nt[1] = [[x]y]] --z
ScanSrc3 ==
    <<"-","-","[","=","=","["," ","c"," ","]","]"," ","]","=","=","]","\n","t","[","1","]"," ",
      "="," ","[","[","x","]","y","]","]"," ","-","-","z">>

\* a = [==[ unfinished ]=] 
ScanSrc4 ==
    <<"a"," ","="," ","[","=","=","["," ","u","n","f","i","n","i","s","h","e","d"," ","]","=","]",
      " ">>

\* --[[ open
ScanSrc5 ==
    <<"-","-","[","["," ","o","p","e","n">>

\* f(...) ; {a:b(#c)} ~= 1 <= 2 >= 3 == 4 < 5 > 6 * 7 / 8 % 9 ^ 2
ScanSrc6 ==
    <<"f","(",".",".",".",")"," ",";"," ","{","a",":","b","(","#","c",")","}"," ","~","="," ","1",
      " ","<","="," ","2"," ",">","="," ","3"," ","=","="," ","4"," ","<"," ","5"," ",">"," ","6",
      " ","*"," ","7"," ","/"," ","8"," ","%"," ","9"," ","^"," ","2">>

\* x = "abc\ny = ~ [= $ 'z
ScanSrc7 ==
    <<"x"," ","="," ","\"","a","b","c","\n","y"," ","="," ","~"," ","[","="," ","$"," ","'","z">>

\* if a then\r\n\treturn not b or c and nil\nend -- done
ScanSrc8 ==
    <<"i","f"," ","a"," ","t","h","e","n","\r","\n","\t","r","e","t","u","r","n"," ","n","o","t",
      " ","b"," ","o","r"," ","c"," ","a","n","d"," ","n","i","l","\n","e","n","d"," ","-","-",
      " ","d","o","n","e">>

\* --[ text\nx = 1
ScanSrc9 ==
    <<"-","-","["," ","t","e","x","t","\n","x"," ","="," ","1">>

\* a = "\256" .. '\99\0123\300'
ScanSrc10 ==
    <<"a"," ","="," ","\"","\\","2","5","6","\""," ",".","."," ","'","\\","9","9","\\","0","1","2",
      "3","\\","3","0","0","'">>

ScanSources ==
    {ScanSrc1, ScanSrc2, ScanSrc3, ScanSrc4, ScanSrc5, ScanSrc6, ScanSrc7, ScanSrc8, ScanSrc9,
     ScanSrc10}

\* The token a returned Scan call hands to its caller.
Handed(s) == [off |-> s.off, tok |-> s.tok, lit |-> s.lit]

ScanInit ==
    /\ \E src \in ScanSources : sc = ScannerInit(src, NewFile)
    /\ emitted = <<>>
    /\ run = Nil
    /\ mf = Nil
    /\ fd = Nil
    /\ gi = Nil
    /\ lk = Nil
    /\ ls = Nil

\* One step of the running call; a step that returns hands the token over.
ScanRun ==
    /\ sc' = ScanStep(sc)
    /\ emitted' = IF sc'.pc = "idle" THEN Append(emitted, Handed(sc')) ELSE emitted
    /\ UNCHANGED <<run, mf, fd, gi, lk, ls>>

\* The client calls Scan unless the last call returned EOF.
ScanCall ==
    /\ sc.pc = "idle"
    /\ IF Len(emitted) = 0 THEN TRUE ELSE emitted[Len(emitted)].tok # "EOF"
    /\ ScanRun

ScanSpaceStep ==
    /\ sc.pc = "scanSpace"
    /\ ScanRun

ScanNameStep ==
    /\ sc.pc = "scanName"
    /\ ScanRun

ScanNumberStep ==
    /\ sc.pc \in {"scanNumber", "scanNumberName"}
    /\ ScanRun

ScanStringStep ==
    /\ sc.pc = "scanString"
    /\ ScanRun

ScanLongStringEqStep ==
    /\ sc.pc = "scanLongStringEq"
    /\ ScanRun

ScanLongStringStep ==
    /\ sc.pc = "scanLongString"
    /\ ScanRun

ScanCommentStep ==
    /\ sc.pc = "scanComment"
    /\ ScanRun

ScanNext ==
    \/ ScanCall
    \/ ScanSpaceStep
    \/ ScanNameStep
    \/ ScanNumberStep
    \/ ScanStringStep
    \/ ScanLongStringEqStep
    \/ ScanLongStringStep
    \/ ScanCommentStep

ScanSpec == ScanInit /\ [][ScanNext]_vars

\* The scheduler runs the one goroutine that scans: a step that can be taken is taken.
FairScanSpec == ScanSpec /\ WF_vars(ScanNext)

(***************************************************************************)
(* The claims about the parser and the emitter, on the states of Spec.     *)
(***************************************************************************)
\* ParseFile has returned and the client has made exactly the calls h.
Made(h) == run.parsed /\ run.calls = h

\* The client has written the tree ParseFile returned to a buffer.
EmittedToBuffer == Made(<<"emit">>) /\ run.out.w.room = -1

\* C1: for a valid Lua 5.1 source, what WriteTo writes of the tree ParseFile
\* returned is the source, byte for byte.
C1_EmitParseIsSource ==
    (EmittedToBuffer /\ run.src \in ValidLua) => run.out.w.out = run.src

\* C1 on a call with a string argument (Src5), a function statement with a
\* method (Src6) and a comment that opens like a long one (Src7).
C1_StringArg == (EmittedToBuffer /\ run.src = Src5) => run.out.w.out = run.src

C1_Method == (EmittedToBuffer /\ run.src = Src6) => run.out.w.out = run.src

C1_Comment == (EmittedToBuffer /\ run.src = Src7) => run.out.w.out = run.src

\* C2: when the parser bails out, the File ParseFile returns with the error
\* holds every token the parser had consumed, and the statements made of them.
C2_PartialTreeReturned ==
    (run.parsed /\ Halted(run.p))
        => /\ run.res.toks = run.p.toks
           /\ (run.p.toks # <<>> => run.res.f.Body.Items # <<>>)

\* The first error reported during the parse: the first report the error
\* handler of the scanner received or, if it received none, that of the parser.
FirstError(p) == IF p.scanner.log # <<>> THEN p.scanner.log[1] ELSE p.err

\* C3: the error ParseFile returns is the first error reported during the parse.
C3_FirstErrorWins == run.parsed => run.res.err = FirstError(run.p)

\* C4: every Scan call returns: a call that is running is followed by a state
\* between calls.
C4_ScanReturns == (sc.pc # "idle") ~> (sc.pc = "idle")

(***************************************************************************)
(* The claims about Minify, on the states of Spec.                         *)
(***************************************************************************)
\* The client has called Minify, and nothing else, on the tree of ParseFile.
Minified == Made(<<"minify">>)

\* The variables of the file scope of the last Minify that are locals.
Locals == {v \in 1..Len(run.min.fs.variables) : run.min.fs.variables[v].Type = "LocalVar"}

\* The variables of that file scope that are globals.
GlobalVars == {v \in 1..Len(run.min.fs.variables) : run.min.fs.variables[v].Type = "GlobalVar"}

C6_LocalsAvoidGlobals ==
    Minified => \A v \in Locals, g \in GlobalVars : run.min.names[v] # run.min.names[g]

\* C6 for a global that is referred to in the very scope that declares the
\* local.
C6_LocalsAvoidGlobalsOfTheirScope ==
    Minified =>
        \A v \in Locals, g \in GlobalVars :
            run.min.fs.variables[v].Scopes[1]
                \in {run.min.fs.variables[g].Scopes[i] :
                       i \in 1..Len(run.min.fs.variables[g].Scopes)}
            => run.min.names[v] # run.min.names[g]

(***************************************************************************)
(* MinifySpec: format.Minify on the file `local x,x,...,x` of NumLocals    *)
(* names, loop by loop.  mf.pc names the loop that runs: "declare" is the  *)
(* loop of scopeParser.Visit over the NameList, within BuildFileScope;     *)
(* "keywords", "globals" and "locals" are the three loops of Minify that   *)
(* fill usedIndexes and varIndexes (mf.st); "rename" is its loop over      *)
(* varIndexes, which leaves the tokens mf.toks and the names mf.names of   *)
(* the variables.  mf.i is the loop variable.                              *)
(***************************************************************************)
NumLocals == 327

\* The tokens of the file: `local`, then the names with the commas between.
LocalsToks(n) ==
    Tuple([i \in 1..(2 * n) |->
        IF i = 1 THEN [Type |-> "LOCAL", Bytes |-> <<"l","o","c","a","l">>, Offset |-> 0,
                       Prefix |-> <<>>]
        ELSE IF i % 2 = 0
             THEN [Type |-> "NAME", Bytes |-> <<"x">>, Offset |-> i + 4,
                   Prefix |-> IF i = 2 THEN <<[Type |-> "SPACE", Bytes |-> <<" ">>]>> ELSE <<>>]
             ELSE [Type |-> "COMMA", Bytes |-> <<",">>, Offset |-> i + 4, Prefix |-> <<>>]])

\* scopeParser.Visit(file) up to the Walk of the body: the root scope is open.
rootOpened(p) == [p EXCEPT !.Root = p.currentScope]

MinifyInit ==
    /\ mf = [pc |-> "declare", i |-> 1, names |-> <<>>, toks |-> <<>>,
             fs |-> rootOpened(openScope(scopeParserInit(LocalsToks(NumLocals)))),
             st |-> [usedIndexes |-> <<>>, varIndexes |-> <<>>], places |-> <<>>]
    /\ sc = Nil
    /\ emitted = <<>>
    /\ run = Nil
    /\ fd = Nil
    /\ gi = Nil
    /\ lk = Nil
    /\ ls = Nil

\* One turn of `for i := range node.Items { p.addLocalVar(&node.Items[i].Token) }`.
DeclareStep ==
    /\ mf.pc = "declare"
    /\ mf.i <= NumLocals
    /\ mf' = [mf EXCEPT !.fs = addLocalVar(@, 2 * mf.i), !.i = @ + 1]
    /\ UNCHANGED <<sc, emitted, run, fd, gi, lk, ls>>

\* The names are declared: Visit(file) closes the root scope and
\* BuildFileScope returns.
ScopeReturn ==
    /\ mf.pc = "declare"
    /\ mf.i > NumLocals
    /\ mf' = [mf EXCEPT !.fs = closeScope(@), !.pc = "keywords"]
    /\ UNCHANGED <<sc, emitted, run, fd, gi, lk, ls>>

\* The loop over the keywords.
KeywordsLoop ==
    /\ mf.pc = "keywords"
    /\ mf' = [mf EXCEPT !.st = [usedIndexes |-> markKeywords(mf.fs),
                                varIndexes |-> Tuple([v \in 1..Len(mf.fs.variables) |-> NoIndex])],
                        !.pc = "globals"]
    /\ UNCHANGED <<sc, emitted, run, fd, gi, lk, ls>>

\* The loop over fileScope.Globals.
GlobalsLoop ==
    /\ mf.pc = "globals"
    /\ mf' = [mf EXCEPT !.st = markGlobals(mf.fs, @, 1),
                        !.places = descendItems(mf.fs, mf.fs.Root, 0),
                        !.i = 1, !.pc = "locals"]
    /\ UNCHANGED <<sc, emitted, run, fd, gi, lk, ls>>

\* One call of the callback of descendItems(fileScope.Root.Items, ...).
LocalStep ==
    /\ mf.pc = "locals"
    /\ mf.i <= Len(mf.places)
    /\ mf' = [mf EXCEPT !.st = assignLocal(mf.fs, @, mf.places[mf.i]), !.i = @ + 1]
    /\ UNCHANGED <<sc, emitted, run, fd, gi, lk, ls>>

\* The loop over varIndexes.
RenameLoop ==
    /\ mf.pc = "locals"
    /\ mf.i > Len(mf.places)
    /\ mf' = [mf EXCEPT !.toks = renameLocals(mf.fs, mf.st.varIndexes, mf.fs.toks),
                        !.names = variableNames(mf.fs, mf.st.varIndexes),
                        !.pc = "done"]
    /\ UNCHANGED <<sc, emitted, run, fd, gi, lk, ls>>

MinifyNext ==
    \/ DeclareStep
    \/ ScopeReturn
    \/ KeywordsLoop
    \/ GlobalsLoop
    \/ LocalStep
    \/ RenameLoop

MinifySpec == MinifyInit /\ [][MinifyNext]_vars

\* The spellings of the keywords.
KeywordNames == {KeywordTable[i][2] : i \in 1..Len(KeywordTable)}

\* C7: after Minify, no local has the name of a keyword.
C7_LocalsAvoidKeywords ==
    mf.pc = "done"
        => \A v \in 1..Len(mf.fs.variables) :
               mf.fs.variables[v].Type = "LocalVar" => mf.names[v] \notin KeywordNames

(***************************************************************************)
(* The claims about the fixers and the walker, on the states of Spec.      *)
(***************************************************************************)
\* The tokens of a tree that are not prefix tokens, in the order WriteTo
\* writes them, as pairs of type and bytes; the EOF token is left out.
TreeLexemes(tree) ==
    LET order == SelectSeq(WriteTokens(tree.toks, tree.f),
                           LAMBDA id : tree.toks[id].Type # "EOF")
    IN [i \in 1..Len(order) |-> <<tree.toks[order[i]].Type, tree.toks[order[i]].Bytes>>]

\* The client has removed the prefixes and then called FixAdjoinedTokens.
Adjoined == Made(<<"strip", "adjoin">>)

\* C8: once the prefixes of a valid program are removed and FixAdjoinedTokens
\* has run, the scanner makes of the bytes of the tokens, with the separators
\* the fixer put between them, the tokens of the program.
C8_AdjoinedScansBack ==
    (Adjoined /\ run.src \in ValidLua)
        => Lexemes(Emitted(run.tree)) = TreeLexemes(TreeOf(run.res))

\* The last call of the client was FixTokenOffsets(file, 0).
Reflowed == run.parsed /\ run.calls # <<>> /\ run.calls[Len(run.calls)] = "reflow"

\* The number of bytes written before the bytes of each written token:
\* order names the tokens in the order of the writes.
RECURSIVE BytesBefore(_, _, _, _)
BytesBefore(toks, order, k, n) ==
    IF k > Len(order) THEN <<>>
    ELSE <<n + Len(PrefixBytes(toks[order[k]]))>>
         \o BytesBefore(toks, order, k + 1,
                        n + Len(PrefixBytes(toks[order[k]])) + Len(toks[order[k]].Bytes))

\* The Offset of every valid token is the number of bytes written before its
\* bytes.
OffsetsAreBytesBefore(toks, order) ==
    LET before == BytesBefore(toks, order, 1, 0)
    IN \A k \in 1..Len(order) :
           IsValid(toks[order[k]].Type) => toks[order[k]].Offset = before[k]

\* C9: after FixTokenOffsets(file, 0), the Offset of every valid token of the
\* tree is the number of bytes WriteTo writes before the bytes of the token.
C9_OffsetsAreBytesBefore ==
    Reflowed =>
        OffsetsAreBytesBefore(run.tree.toks, WriteTokens(run.tree.toks, run.tree.f))

\* C10: after FixTokenOffsets(file, 0), the line table holds, in order, the
\* offsets that follow the newlines of the bytes WriteTo writes (after the
\* offset 0 of the first line, if the table holds it).
C10_LinesFollowNewlines ==
    Reflowed =>
        \/ run.tree.lines = AfterNewlines(Emitted(run.tree))
        \/ run.tree.lines = <<0>> \o AfterNewlines(Emitted(run.tree))

\* C8 on Src8, `x = 1 .. 2`.
C8_Concat ==
    (Adjoined /\ run.src = Src8) => Lexemes(Emitted(run.tree)) = TreeLexemes(TreeOf(run.res))

\* C9 on Src4, an if statement with an elseif clause.
C9_ElseIf ==
    (Reflowed /\ run.src = Src4) =>
        OffsetsAreBytesBefore(run.tree.toks, WriteTokens(run.tree.toks, run.tree.f))

(***************************************************************************)
(* The claims about the file scope.  Bindings reads the bindings off the   *)
(* tree by the scoping rules of Lua 5.1: it runs over the tree in program  *)
(* order with env, the open blocks from the outermost to the innermost,    *)
(* each the names declared in it so far, and gives for every use of a      *)
(* variable the name token that declares it (0: none, a global).           *)
(***************************************************************************)
Use(id) == [e |-> "use", id |-> id]

Decl(id) == [e |-> "decl", id |-> id]

Open == [e |-> "open"]

Close == [e |-> "close"]

\* The declarations of the names of a NameList (none for nil).
Decls(l) == IF l = Nil THEN <<>> ELSE [i \in 1..Len(l.Items) |-> Decl(l.Items[i].Token)]

\* A function body: its parameters are local to it.
FuncScope(f) == <<Open>> \o Decls(f.Params) \o <<N(f.Body), Close>>

\* The child nodes of a node, in order.
Children(node) ==
    LET es == WalkOrder(node)
    IN [i \in 1..Len(SelectSeq(es, LAMBDA x : x.e # "tok")) |->
           N(SelectSeq(es, LAMBDA x : x.e # "tok")[i].node)]

\* What a node means for the bindings, in program order.
Scoping(node) ==
    LET k == node.k
    IN CASE node = Nil -> <<>>
         [] k = "File" -> <<Open, N(node.Body), Close>>
         [] k = "VariableExpr" -> <<Use(node.Name.Token)>>
         [] k = "FunctionExpr" -> FuncScope(node)
         [] k = "DoStmt" -> <<Open, N(node.Body), Close>>
         [] k = "WhileStmt" -> <<N(node.Cond), Open, N(node.Body), Close>>
         [] k = "RepeatStmt" -> <<Open, N(node.Body), N(node.Cond), Close>>
         [] k = "IfStmt" ->
              <<N(node.Cond), Open, N(node.Body), Close>>
              \o [i \in 1..Len(node.ElseIf) |-> N(node.ElseIf[i])]
              \o <<N(node.Else)>>
         [] k = "ElseIfClause" -> <<N(node.Cond), Open, N(node.Body), Close>>
         [] k = "ElseClause" -> <<Open, N(node.Body), Close>>
         [] k = "NumericForStmt" ->
              <<N(node.Min), N(node.Max), N(node.Step), Open, Decl(node.Name.Token),
                N(node.Body), Close>>
         [] k = "GenericForStmt" ->
              <<N(node.Iterator), Open>> \o Decls(node.Names) \o <<N(node.Body), Close>>
         [] k = "LocalVarStmt" -> <<N(node.Values)>> \o Decls(node.Names)
         [] k = "LocalFunctionStmt" -> <<Decl(node.Name.Token)>> \o FuncScope(node.Func)
         [] k = "FunctionStmt" -> <<Use(node.Name.Items[1].Token)>> \o FuncScope(node.Func)
         [] OTHER -> Children(node)

\* The innermost declaration of the name in env, the last one of its block.
RECURSIVE Bound(_, _, _)
Bound(toks, env, name) ==
    IF env = <<>> THEN 0
    ELSE LET block == env[Len(env)]
             hits == {i \in 1..Len(block) : toks[block[i]].Bytes = name}
         IN IF hits # {} THEN block[CHOOSE i \in hits : \A j \in hits : j <= i]
            ELSE Bound(toks, SubSeq(env, 1, Len(env) - 1), name)

RECURSIVE Bindings(_, _, _)
Bindings(toks, env, agenda) ==
    IF agenda = <<>> THEN <<>>
    ELSE LET x == Head(agenda)
             rest == Tail(agenda)
         IN CASE x.e = "open" -> Bindings(toks, Append(env, <<>>), rest)
              [] x.e = "close" -> Bindings(toks, SubSeq(env, 1, Len(env) - 1), rest)
              [] x.e = "decl" ->
                   Bindings(toks, [env EXCEPT ![Len(env)] = Append(@, x.id)], rest)
              [] x.e = "use" ->
                   <<[use |-> x.id, decl |-> Bound(toks, env, toks[x.id].Bytes)]>>
                   \o Bindings(toks, env, rest)
              [] OTHER -> Bindings(toks, env, Scoping(x.node) \o rest)

\* The name token that declares a variable of the file scope (0 for a global).
DeclaredAt(fs, v) == IF fs.variables[v].Type = "LocalVar" THEN fs.variables[v].References[1] ELSE 0

\* VariableMap maps every use to the variable of its binding, or to a global
\* of its name; there is one global of a name.
MapsUsesToBindings(fs, tree) ==
    LET bs == Bindings(tree.toks, <<>>, <<N(tree.f)>>)
    IN /\ \A i \in 1..Len(bs) :
              /\ fs.VariableMap[bs[i].use] # 0
              /\ DeclaredAt(fs, fs.VariableMap[bs[i].use]) = bs[i].decl
              /\ fs.variables[fs.VariableMap[bs[i].use]].Name = tree.toks[bs[i].use].Bytes
       /\ \A g \in 1..Len(fs.Globals), h \in 1..Len(fs.Globals) :
              fs.variables[fs.Globals[g]].Name = fs.variables[fs.Globals[h]].Name => g = h

\* C11: VariableMap maps every use of a variable to the variable of the
\* innermost enclosing binding of its name that is in effect at the use and,
\* if there is none, to the one global of that name.
C11_MapIsInnermostBinding ==
    Minified => MapsUsesToBindings(run.min.fs, TreeOf(run.res))

\* BuildFileScope has mapped a use in an inner block to a local declared in
\* an outer one, which a declaration of the same name in a third block shadows
\* elsewhere.
C11_Witness ==
    /\ Minified
    /\ run.src = Src23
    /\ \E v \in Locals :
           /\ Len(run.min.fs.variables[v].Scopes) > 1
           /\ run.min.fs.variables[v].Scopes[1] # run.min.fs.variables[v].Scopes[2]

\* The client has walked the tree of an error-free parse with a token visitor.
TokensWalked == Made(<<"walk">>) /\ run.res.err = NoErr

\* C12: in one walk with a token visitor over the tree of an error-free parse,
\* every visited token of valid type has a larger offset than every valid
\* token visited before it.
C12_TokensInOffsetOrder ==
    TokensWalked =>
        \A i \in 1..Len(run.seen), j \in 1..Len(run.seen) :
            (i < j /\ IsValid(run.seen[i].Type) /\ IsValid(run.seen[j].Type))
                => run.seen[i].Offset < run.seen[j].Offset

\* A walk has visited the tokens of a list with a separator: two names and
\* the comma between them, among more than three valid tokens.
C12_Witness ==
    /\ TokensWalked
    /\ \E i \in 1..Len(run.seen) : run.seen[i].Type = "COMMA"
    /\ Len(SelectSeq(run.seen, LAMBDA t : IsValid(t.Type))) > 3

\* The nodes of the tree under a node, the node included.
RECURSIVE Nodes(_)
Nodes(node) ==
    IF node = Nil THEN {}
    ELSE {node} \cup UNION {Nodes(Children(node)[i].node) : i \in 1..Len(Children(node))}

\* The left priority of the operator of a binary expression.
Level(toks, e) == Precedence(toks[e.BinopToken].Type)[1]

\* The binary operators that group to the right.
RightAssoc == {"CARET", "CONCAT"}

\* The operands of the expression e are what the priorities make them: a
\* binary operand on the left is of a level no lower than that of e (higher,
\* when e groups to the right), one on the right is of a higher level (no
\* lower, when e groups to the right and the operand has its operator); a
\* unary operand on the left is one that e's operator could not extend (e is
\* of a level up to 8); the operand of a unary expression is binary only with
\* a level above 8.
GroupedByPrecedence(toks, e) ==
    CASE e.k = "BinopExpr" ->
           /\ e.Left # Nil /\ e.Right # Nil
           /\ e.Left.k = "BinopExpr" =>
                  IF toks[e.BinopToken].Type \in RightAssoc
                  THEN Level(toks, e.Left) > Level(toks, e)
                  ELSE Level(toks, e.Left) >= Level(toks, e)
           /\ e.Left.k = "UnopExpr" => Level(toks, e) <= UnaryPrecedence
           /\ e.Right.k = "BinopExpr" =>
                  IF toks[e.BinopToken].Type \in RightAssoc
                  THEN \/ Level(toks, e.Right) > Level(toks, e)
                       \/ toks[e.Right.BinopToken].Type = toks[e.BinopToken].Type
                  ELSE Level(toks, e.Right) > Level(toks, e)
      [] e.k = "UnopExpr" ->
           /\ e.Operand # Nil
           /\ e.Operand.k = "BinopExpr" => Level(toks, e.Operand) > UnaryPrecedence
      [] OTHER -> TRUE

\* C13: the expressions of a tree are grouped by the precedence table: an
\* operator binds tighter than one of lower left precedence, operators of one
\* level group to the left, '^' and '..' to the right, and the operand of a
\* unary operator extends only over operators of left precedence above 8.
C13_GroupedByPrecedence ==
    (run.parsed /\ run.calls = <<>> /\ run.res.err = NoErr)
        => \A e \in Nodes(run.res.f) : GroupedByPrecedence(run.res.toks, e)

\* The parser has returned x = a - b - c * -d ^ e ^ f as
\* (a - b) - (c * -(d ^ (e ^ f))).
C13_Witness ==
    /\ run.parsed /\ run.calls = <<>> /\ run.res.err = NoErr
    /\ \E e \in Nodes(run.res.f) :
           /\ e.k = "BinopExpr" /\ run.res.toks[e.BinopToken].Type = "MINUS"
           /\ e.Left.k = "BinopExpr" /\ run.res.toks[e.Left.BinopToken].Type = "MINUS"
           /\ e.Right.k = "BinopExpr" /\ run.res.toks[e.Right.BinopToken].Type = "ASTERISK"
           /\ e.Right.Right.k = "UnopExpr"
           /\ e.Right.Right.Operand.k = "BinopExpr"
           /\ run.res.toks[e.Right.Right.Operand.BinopToken].Type = "CARET"
           /\ e.Right.Right.Operand.Right.k = "BinopExpr"
           /\ run.res.toks[e.Right.Right.Operand.Right.BinopToken].Type = "CARET"

\* The parser has returned x = not a == b .. c .. d and e or f as
\* (((not a) == (b .. (c .. d))) and e) or f.
C13_WitnessKeywords ==
    /\ run.parsed /\ run.calls = <<>> /\ run.res.err = NoErr
    /\ \E e \in Nodes(run.res.f) :
           /\ e.k = "BinopExpr" /\ run.res.toks[e.BinopToken].Type = "OR"
           /\ e.Left.k = "BinopExpr" /\ run.res.toks[e.Left.BinopToken].Type = "AND"
           /\ e.Left.Left.k = "BinopExpr" /\ run.res.toks[e.Left.Left.BinopToken].Type = "EQ"
           /\ e.Left.Left.Left.k = "UnopExpr"
           /\ e.Left.Left.Right.k = "BinopExpr"
           /\ run.res.toks[e.Left.Left.Right.BinopToken].Type = "CONCAT"
           /\ e.Left.Left.Right.Right.k = "BinopExpr"

\* C14: a string literal after a primary expression is parsed as the
\* argument of a call of that expression: f "x" is a call statement whose
\* call has a StringArg, parsed without an error.
C14_StringIsCallArgument ==
    (run.parsed /\ run.calls = <<>> /\ run.src = Src5)
        => /\ run.res.err = NoErr
           /\ \E e \in Nodes(run.res.f) : e.k = "CallExpr" /\ e.Args.k = "StringArg"

\* C15: every ExprList and NameList of a tree returned by an error-free parse
\* has an item, one separator fewer than items, and commas for separators.
C15_ListsAreSeparated ==
    (run.parsed /\ run.calls = <<>> /\ run.res.err = NoErr)
        => \A l \in Nodes(run.res.f) :
               l.k \in {"ExprList", "NameList"}
                   => /\ Len(l.Items) >= 1
                      /\ Len(l.Seps) = Len(l.Items) - 1
                      /\ \A i \in 1..Len(l.Seps) : run.res.toks[l.Seps[i]].Type = "COMMA"

(***************************************************************************)
(* The goroutines of a client that share one token.File.  fd holds the     *)
(* line table, the holder of the mutex (0: unlocked) and, for each         *)
(* goroutine, the method it runs (op, with its argument arg or content),   *)
(* where it is in it (pc) and its locals: i and pos of Position, c of      *)
(* LineCount.                                                              *)
(* A method locks, touches f.lines ("body", and "column" for the second    *)
(* read of Position), unlocks and returns.                                 *)
(***************************************************************************)
Goroutines == {1, 2}

MaxOffset == 3

MaxContent == 2

Offsets == 0..MaxOffset

\* The contents given to SetLinesForContent: letters and newlines.
Contents == UNION {[1..n -> {"a", "\n"}] : n \in 0..MaxContent}

Idle ==
    [pc |-> "idle", op |-> "none", arg |-> 0, content |-> <<>>, i |-> 0, c |-> 0, pos |-> Nil]

\* The methods of File that touch the line table, and their arguments.
Calls ==
    {[op |-> o, arg |-> 0, content |-> <<>>] : o \in {"LineCount", "ClearLines"}}
    \cup {[op |-> o, arg |-> a, content |-> <<>>] : o \in {"AddLine", "Position"}, a \in Offsets}
    \cup {[op |-> "SetLinesForContent", arg |-> 0, content |-> c] : c \in Contents}

FileInit ==
    /\ fd = [lines |-> NewFile, mutex |-> 0, g |-> Tuple([t \in Goroutines |-> Idle])]
    /\ sc = Nil
    /\ emitted = <<>>
    /\ run = Nil
    /\ mf = Nil
    /\ gi = Nil
    /\ lk = Nil
    /\ ls = Nil

At(t, op, pc) == fd.g[t].op = op /\ fd.g[t].pc = pc

\* A goroutine calls a method; SetLinesForContent builds its table first.
FileCall(t) ==
    /\ fd.g[t].pc = "idle"
    /\ \E c \in Calls :
           fd' = [fd EXCEPT !.g[t] = [Idle EXCEPT !.pc = "lock", !.op = c.op, !.arg = c.arg,
                                                  !.content = c.content]]
    /\ UNCHANGED <<sc, emitted, run, mf, gi, lk, ls>>

\* f.mutex.Lock()
FileLock(t) ==
    /\ fd.g[t].pc = "lock"
    /\ CanLock(fd.mutex)
    /\ fd' = [fd EXCEPT !.mutex = t, !.g[t].pc = "body"]
    /\ UNCHANGED <<sc, emitted, run, mf, gi, lk, ls>>

\* c = len(f.lines)
LineCountBody(t) ==
    /\ At(t, "LineCount", "body")
    /\ fd' = [fd EXCEPT !.g[t].c = LineCount(fd.lines), !.g[t].pc = "unlock"]
    /\ UNCHANGED <<sc, emitted, run, mf, gi, lk, ls>>

AddLineBody(t) ==
    /\ At(t, "AddLine", "body")
    /\ fd' = [fd EXCEPT !.lines = AddLine(@, fd.g[t].arg), !.g[t].pc = "unlock"]
    /\ UNCHANGED <<sc, emitted, run, mf, gi, lk, ls>>

\* f.lines = lines
SetLinesBody(t) ==
    /\ At(t, "SetLinesForContent", "body")
    /\ fd' = [fd EXCEPT !.lines = SetLinesForContent(fd.g[t].content), !.g[t].pc = "unlock"]
    /\ UNCHANGED <<sc, emitted, run, mf, gi, lk, ls>>

ClearLinesBody(t) ==
    /\ At(t, "ClearLines", "body")
    /\ fd' = [fd EXCEPT !.lines = ClearLines(@), !.g[t].pc = "unlock"]
    /\ UNCHANGED <<sc, emitted, run, mf, gi, lk, ls>>

\* i := searchInts(f.lines, offset); pos is zero but for its Offset.
PositionSearch(t) ==
    /\ At(t, "Position", "body")
    /\ fd' = [fd EXCEPT !.g[t].i = searchInts(fd.lines, fd.g[t].arg),
                        !.g[t].pos = [Offset |-> fd.g[t].arg, Line |-> 0, Column |-> 0],
                        !.g[t].pc = "column"]
    /\ UNCHANGED <<sc, emitted, run, mf, gi, lk, ls>>

\* if i >= 0 { pos.Line, pos.Column = i+1, offset-f.lines[i]+1 }; the index
\* is out of range, and the goroutine panics, when the table has shrunk.
PositionColumn(t) ==
    /\ At(t, "Position", "column")
    /\ fd' = IF fd.g[t].i < 0 THEN [fd EXCEPT !.g[t].pc = "unlock"]
             ELSE IF fd.g[t].i >= Len(fd.lines) THEN [fd EXCEPT !.g[t].pc = "panic"]
             ELSE [fd EXCEPT !.g[t].pos = [Offset |-> fd.g[t].arg, Line |-> fd.g[t].i + 1,
                                           Column |-> fd.g[t].arg - fd.lines[fd.g[t].i + 1] + 1],
                             !.g[t].pc = "unlock"]
    /\ UNCHANGED <<sc, emitted, run, mf, gi, lk, ls>>

\* f.mutex.Unlock()
FileUnlock(t) ==
    /\ fd.g[t].pc = "unlock"
    /\ fd' = [fd EXCEPT !.mutex = 0, !.g[t].pc = "return"]
    /\ UNCHANGED <<sc, emitted, run, mf, gi, lk, ls>>

\* The method returns to the goroutine.
FileReturn(t) ==
    /\ fd.g[t].pc = "return"
    /\ fd' = [fd EXCEPT !.g[t] = Idle]
    /\ UNCHANGED <<sc, emitted, run, mf, gi, lk, ls>>

FileNext ==
    \E t \in Goroutines :
        \/ FileCall(t)
        \/ FileLock(t)
        \/ LineCountBody(t)
        \/ AddLineBody(t)
        \/ SetLinesBody(t)
        \/ ClearLinesBody(t)
        \/ PositionSearch(t)
        \/ PositionColumn(t)
        \/ FileUnlock(t)
        \/ FileReturn(t)

FileSpec == FileInit /\ [][FileNext]_vars

\* The lines of a table are in strictly increasing order.
Increasing(lines) == \A i \in 1..Len(lines), j \in 1..Len(lines) : i < j => lines[i] < lines[j]

\* C16: Position returns a line and a column of at least 1 for every offset
\* from 0 on, whatever AddLine, ClearLines and SetLinesForContent calls the
\* File has seen.
C16_PositionIsValid ==
    \A t \in Goroutines :
        At(t, "Position", "return") => fd.g[t].pos.Line >= 1 /\ fd.g[t].pos.Column >= 1

\* C17: the line table is always in strictly increasing order, and AddLine
\* with an offset that is not above the last one recorded leaves it as it is.
C17_TableIncreasesAddLineIdempotent ==
    /\ [](Increasing(fd.lines))
    /\ [][\A t \in Goroutines :
             (/\ At(t, "AddLine", "body")
              /\ fd'.g[t].pc = "unlock"
              /\ fd.lines # <<>>
              /\ fd.g[t].arg <= fd.lines[Len(fd.lines)]) => fd'.lines = fd.lines]_vars

\* AddLine has run with an offset that is not above the last of a table of
\* two lines or more, which SetLinesForContent or AddLine made.
C17_Witness ==
    \E t \in Goroutines :
        /\ At(t, "AddLine", "unlock")
        /\ Len(fd.lines) >= 2
        /\ fd.g[t].arg <= fd.lines[Len(fd.lines)]

\* The goroutine is between Lock and Unlock, where the methods touch f.lines.
Inside(t) == fd.g[t].pc \in {"body", "column", "unlock"}

\* C18: every read and write of the line table is made by the goroutine that
\* holds the mutex, so no two goroutines are at the table together, and what
\* Position has read of the table is still so at its second read.
C18_TableAccessSerialized ==
    /\ \A t \in Goroutines : Inside(t) => fd.mutex = t
    /\ \A t \in Goroutines, u \in Goroutines : (Inside(t) /\ Inside(u)) => t = u
    /\ \A t \in Goroutines :
           At(t, "Position", "column") => fd.g[t].i = searchInts(fd.lines, fd.g[t].arg)
    /\ \A t \in Goroutines : fd.g[t].pc # "panic"

\* Position is between its two reads of the table while another goroutine
\* waits for the mutex to clear it.
C18_Witness ==
    \E t \in Goroutines, u \in Goroutines :
        /\ At(t, "Position", "column")
        /\ fd.g[t].i >= 0
        /\ At(u, "ClearLines", "lock")

\* The client has written its tree to a sink.
Written == run.parsed /\ run.out # Nil

\* C19: once a Write of the sink has failed, WriteTo issues no further Write;
\* it returns the error of that Write, and none when no Write failed, with
\* the number of bytes the sink has accepted.
C19_EmitStopsAtFirstError ==
    Written =>
        /\ \A i \in 1..Len(run.out.w.calls) : run.out.w.calls[i] => i = Len(run.out.w.calls)
        /\ run.out.err <=> (\E i \in 1..Len(run.out.w.calls) : run.out.w.calls[i])
        /\ run.out.n = Len(run.out.w.out)

\* A sink has failed after it had accepted the bytes of two writes or more,
\* inside a node below the File.
C19_Witness ==
    /\ Written
    /\ run.out.err
    /\ Len(run.out.w.calls) >= 3
    /\ run.out.n > 0
    /\ Len(run.out.w.out) < Len(run.src)

(***************************************************************************)
(* A client of GenerateIdent and IdentIndex.  gi holds the two indexes it  *)
(* has drawn (i, j), the identifiers GenerateIdent made of them (a, b) and *)
(* what IdentIndex made of a (back); pc tells which calls have returned.   *)
(***************************************************************************)
MaxIndex == 70

\* The first and last index of the identifiers of each length from 2 on.
LengthEdges ==
    {3391, 3392, 213748, 213749, 13466239, 13466240, 848373172, 848373173,
     maxIdentIndex - 1, maxIdentIndex}

Indexes == 0..MaxIndex \cup LengthEdges

IdentInit ==
    /\ gi = [pc |-> "start", i |-> 0, j |-> 0, a |-> <<>>, b |-> <<>>, back |-> 0]
    /\ lk = Nil
    /\ ls = Nil
    /\ sc = Nil
    /\ emitted = <<>>
    /\ run = Nil
    /\ mf = Nil
    /\ fd = Nil

\* a := GenerateIdent(i)
GenerateFirst ==
    /\ gi.pc = "start"
    /\ \E i \in Indexes : gi' = [gi EXCEPT !.pc = "first", !.i = i, !.a = GenerateIdent(i)]
    /\ UNCHANGED <<sc, emitted, run, mf, fd, lk, ls>>

\* b := GenerateIdent(j)
GenerateSecond ==
    /\ gi.pc = "first"
    /\ \E j \in Indexes : gi' = [gi EXCEPT !.pc = "second", !.j = j, !.b = GenerateIdent(j)]
    /\ UNCHANGED <<sc, emitted, run, mf, fd, lk, ls>>

\* back := IdentIndex(a)
IndexBack ==
    /\ gi.pc = "second"
    /\ gi' = [gi EXCEPT !.pc = "back", !.back = IdentIndex(gi.a)]
    /\ UNCHANGED <<sc, emitted, run, mf, fd, lk, ls>>

IdentNext == GenerateFirst \/ GenerateSecond \/ IndexBack

IdentSpec == IdentInit /\ [][IdentNext]_vars

\* isLetter of the scanner: the bytes that may begin a name.
NameStart == {chars[k] : k \in 1..first}

\* C20: GenerateIdent makes distinct identifiers of distinct indexes, each
\* beginning with a letter or an underscore, and IdentIndex gives back the
\* index of the identifier.
C20_IdentsAreBijective ==
    /\ gi.pc \in {"second", "back"} =>
           /\ gi.i # gi.j => gi.a # gi.b
           /\ gi.a # <<>> /\ gi.a[1] \in NameStart
           /\ \A k \in 1..Len(gi.a) : charIndex(gi.a[k]) >= 0
    /\ gi.pc = "back" => gi.back = gi.i

\* IdentIndex has given back the last index, 2^31 - 1, of its identifier of
\* six bytes, which differs from that of the index before.
C20_Witness ==
    /\ gi.pc = "back"
    /\ gi.i = maxIdentIndex
    /\ gi.j = maxIdentIndex - 1
    /\ Len(gi.a) = maxIdentLength
    /\ gi.back = maxIdentIndex

\* The tokens of the names of a NameList (none for nil).
NameTokens(l) == IF l = Nil THEN {} ELSE {l.Items[i].Token : i \in 1..Len(l.Items)}

\* The name tokens of a node that are expressions: the variables in value
\* position.
ValueNames(node) == IF node.k = "VariableExpr" THEN {node.Name.Token} ELSE {}

\* The name tokens of a node that name a variable without being an
\* expression: the names a statement or a function declares, and the first
\* name of the name list of a function statement.
BindingNames(node) ==
    CASE node.k = "LocalVarStmt" -> NameTokens(node.Names)
      [] node.k = "FunctionExpr" -> NameTokens(node.Params)
      [] node.k = "NumericForStmt" -> {node.Name.Token}
      [] node.k = "GenericForStmt" -> NameTokens(node.Names)
      [] node.k = "LocalFunctionStmt" -> {node.Name.Token} \cup NameTokens(node.Func.Params)
      [] node.k = "FunctionStmt" -> {node.Name.Items[1].Token} \cup NameTokens(node.Func.Params)
      [] OTHER -> {}

\* The tokens in the reference lists of the variables of a file scope.
Referenced(fs) ==
    UNION {{fs.variables[v].References[i] : i \in 1..Len(fs.variables[v].References)} :
              v \in 1..Len(fs.variables)}

\* C21 as stated: the references of all variables are the name tokens in
\* value position, the names of the variable expressions of the tree.
C21_ReferencesAreValueNames ==
    Minified => Referenced(run.min.fs) = UNION {ValueNames(n) : n \in Nodes(run.res.f)}

\* C21: after BuildFileScope, the references of all variables are the name
\* tokens that name a variable: those in value position, those a local
\* statement, a function or a loop declares, and the first name of a function
\* statement.
C21_ReferencesAreVariableNames ==
    Minified =>
        Referenced(run.min.fs)
            = UNION {ValueNames(n) \cup BindingNames(n) : n \in Nodes(run.res.f)}

\* BuildFileScope has run on a tree with a parameter, a function statement
\* and a name in value position.
C21_Witness ==
    /\ Minified
    /\ \E n \in Nodes(run.res.f) : n.k = "FunctionStmt" /\ NameTokens(n.Func.Params) # {}
    /\ \E n \in Nodes(run.res.f) : n.k = "VariableExpr"

(***************************************************************************)
(* The Visit calls of Walk, as the visitor of a client has noted them.     *)
(***************************************************************************)
\* The entries of a log of Visit calls that are calls with a nil node.
Exits(visits) == SelectSeq(visits, LAMBDA k : k = "nil")

\* The entries that are calls with a node.
Entries(visits) == SelectSeq(visits, LAMBDA k : k # "nil")

\* C22: a visitor whose Visit always returns itself gets, in one walk, one
\* call Visit(nil) for every call Visit(node), the last call of the walk
\* being a Visit(nil).
C22_VisitNilAtExit ==
    TokensWalked
        => /\ Len(Exits(run.visits)) = Len(Entries(run.visits))
           /\ run.visits # <<>>
           /\ run.visits[Len(run.visits)] = "nil"

\* The list nodes of Walk: Items and Seps.
ListKinds == {"Block", "ExprList", "NameList", "EntryList", "FuncNameList"}

\* The separators noted with the lists whose items are nodes.
NodeListSeps(seen) ==
    SelectSeq(seen, LAMBDA s : s.Node \in {"Block", "ExprList", "EntryList"})

MaxLooks == 2

\* { a = 1, b } -- c
LookSrc1 == <<"{", " ", "a", " ", "=", " ", "1", ",", " ", "b", " ", "}", " ", "-", "-", " ", "c">>

LookCorpus == {LookSrc1, Src15, Src16}

\* The token state, as the parser holds it.
current(p) == [off |-> p.off, tok |-> p.tok, lit |-> p.lit, pre |-> p.pre]

LookInit ==
    /\ \E src \in LookCorpus : lk = [src |-> src, p |-> init(src), got |-> <<>>, looks |-> 0, last |-> 0]
    /\ sc = Nil
    /\ emitted = <<>>
    /\ run = Nil
    /\ mf = Nil
    /\ fd = Nil
    /\ gi = Nil
    /\ ls = Nil

\* The client once a step of a call has left the parser q: a call of next
\* that has returned has left a token state.
stepped(c, q) ==
    [c EXCEPT !.p = q,
              !.got = IF c.p.pend = "next" /\ q.pend = "" THEN Append(@, current(q)) ELSE @]

\* A step of the call of next or lookahead that runs.
LookStep ==
    /\ Scanning(lk.p)
    /\ lk' = stepped(lk, next(lk.p))
    /\ UNCHANGED <<sc, emitted, run, mf, fd, gi, ls>>

\* p.next(), until it has returned EOF.
NextCall ==
    /\ lk.p.pend = ""
    /\ lk.p.tok # "EOF"
    /\ lk' = [lk EXCEPT !.p.pend = "next", !.looks = 0, !.last = lk.looks]
    /\ UNCHANGED <<sc, emitted, run, mf, fd, gi, ls>>

\* p.lookahead()
LookaheadCall ==
    /\ lk.p.pend = ""
    /\ lk.looks < MaxLooks
    /\ lk' = [lk EXCEPT !.p = lookahead(@), !.looks = @ + 1]
    /\ UNCHANGED <<sc, emitted, run, mf, fd, gi, ls>>

LookNext ==
    \/ LookStep
    \/ NextCall
    \/ LookaheadCall

LookSpec == LookInit /\ [][LookNext]_vars

\* A call of next run to its return.
RECURSIVE nextRun(_)
nextRun(p) == IF p.pend = "" THEN p ELSE nextRun(next(p))

\* The token states that init and then calls of next alone leave, up to EOF.
RECURSIVE nextStates(_)
nextStates(p) ==
    LET q == nextRun(p)
    IN <<current(q)>> \o (IF q.tok = "EOF" THEN <<>> ELSE nextStates([q EXCEPT !.pend = "next"]))

Plain(src) == nextStates(init(src))

\* C24: between calls, the token state is the one the last call of next
\* left, however many calls of lookahead followed it; a stored lookahead
\* state is the one the next call of next would have left; and the token
\* states the calls of next have left are those that calls of next alone
\* leave, in order.
C24_LookaheadKeepsTokens ==
    (lk # Nil /\ lk.p.pend = "")
        => /\ lk.got = SubSeq(Plain(lk.src), 1, Len(lk.got))
           /\ current(lk.p) = lk.got[Len(lk.got)]
           /\ (lk.p.look.set /\ lk.p.tok # "EOF")
                  => [off |-> lk.p.look.off, tok |-> lk.p.look.tok, lit |-> lk.p.look.lit,
                      pre |-> lk.p.look.pre] = Plain(lk.src)[Len(lk.got) + 1]

\* Two calls of lookahead in a row, then a call of next, have returned: the
\* call of next has left a token with a prefix.
C24_Witness ==
    /\ lk # Nil
    /\ lk.p.pend = ""
    /\ lk.last = MaxLooks
    /\ lk.looks = 0
    /\ lk.p.pre # <<>>
    /\ Len(lk.got) > 1

(***************************************************************************)
(* The decimal escapes of a quoted string.                                 *)
(***************************************************************************)
\* The value of the decimal escape whose first digit is b[i]: up to three
\* digits; c is the value of the k digits before b[i].
RECURSIVE escapeValue(_, _, _, _)
escapeValue(b, i, c, k) ==
    IF k >= 3 \/ i > Len(b) \/ ~isDigit(b[i]) THEN c
    ELSE escapeValue(b, i + 1, 10 * c + DigitVal(b[i]), k + 1)

\* The bytes b of a quoted string hold, from b[i] on, a decimal escape of a
\* value above 255.
RECURSIVE HasLargeEscape(_, _)
HasLargeEscape(b, i) ==
    IF i >= Len(b) THEN FALSE
    ELSE IF b[i] # "\\" THEN HasLargeEscape(b, i + 1)
    ELSE IF isDigit(b[i + 1])
         THEN escapeValue(b, i + 1, 0, 0) > 255 \/ HasLargeEscape(b, i + 2)
         ELSE HasLargeEscape(b, i + 2)

\* The handler of the scanner has received msg.
Reported(s, msg) == \E i \in 1..Len(s.log) : s.log[i].Message = <<msg>>

\* C25: when Scan returns a quoted string with a decimal escape of a value
\* above 255, the error handler has received "escape sequence too large".
C25_LargeEscapeIsReported ==
    (sc # Nil /\ sc.pc = "idle" /\ sc.tok = "STRING" /\ HasLargeEscape(sc.lit, 1))
        => Reported(sc, "escape sequence too large")

(***************************************************************************)
(* StringSpec: a client calls ParseValue on a StringExpr whose token is a  *)
(* long string the scanner returns.  ls.level and ls.body are the level    *)
(* and the bytes between the brackets, ls.tok the bytes of the token,      *)
(* ls.v the value once the call has returned or panicked.                  *)
(***************************************************************************)
\* Bytes between the brackets, and '=' signs of a bracket.
MaxBody == 3

MaxLevel == 1

BodyBytes == {"a", "[", "]", "=", "\n", "\r"}

Bodies == UNION {[1..n -> BodyBytes] : n \in 0..MaxBody}

\* The bytes of a long string.
LongString(level, body) ==
    <<"[">> \o [i \in 1..level |-> "="] \o <<"[">> \o body
    \o <<"]">> \o [i \in 1..level |-> "="] \o <<"]">>

\* Scan returns the bytes t as one LONGSTRING token, without an error.
ScansAsLongString(t) ==
    LET r == RunScan(ScannerInit(t, NewFile), MaxScanSteps)
    IN r.pc = "idle" /\ r.tok = "LONGSTRING" /\ r.lit = t /\ r.ErrorCount = 0

\* A slice expression b[low:high] of Go on a slice of length Len(b): the
\* slice, or a panic when the bounds are out of order.
Slice(b, low, high) ==
    IF 0 <= low /\ low <= high /\ high <= Len(b)
    THEN [ok |-> TRUE, s |-> SubSeq(b, low + 1, high)]
    ELSE [ok |-> FALSE, s |-> <<>>]

\* The loop `for i, c := range b` of parseBlockString: b0 is the slice the
\* range clause has evaluated, r the slice b as the body has left it.
RECURSIVE trimBrackets(_, _, _)
trimBrackets(b0, i, r) ==
    IF i >= Len(b0) \/ ~r.ok THEN r
    ELSE trimBrackets(b0, i + 1,
                      IF b0[i + 1] = "[" THEN Slice(r.s, i + 1, Len(r.s) - i - 2) ELSE r)

\* The `Skip first newline` of parseBlockString.
skipNewline(b) ==
    IF Len(b) > 0 /\ b[1] \in {"\n", "\r"}
    THEN IF Len(b) > 1 /\ b[2] \in {"\n", "\r"} /\ b[2] # b[1]
         THEN SubSeq(b, 3, Len(b))
         ELSE SubSeq(b, 2, Len(b))
    ELSE b

\* parseBlockString: ok tells that it returned, s is what it returned.
parseBlockString(b) ==
    LET r == trimBrackets(Tail(b), 0, [ok |-> TRUE, s |-> Tail(b)])
    IN IF r.ok THEN [ok |-> TRUE, s |-> skipNewline(r.s)] ELSE r

StringInit ==
    /\ \E level \in 0..MaxLevel, body \in Bodies :
           /\ ScansAsLongString(LongString(level, body))
           /\ ls = [pc |-> "token", level |-> level, body |-> body,
                    tok |-> LongString(level, body), v |-> [ok |-> TRUE, s |-> <<>>]]
    /\ sc = Nil
    /\ emitted = <<>>
    /\ run = Nil
    /\ mf = Nil
    /\ fd = Nil
    /\ gi = Nil
    /\ lk = Nil

\* StringExpr.ParseValue on a LONGSTRING token.
ParseValueCall ==
    /\ ls.pc = "token"
    /\ ls' = [ls EXCEPT !.pc = "done", !.v = parseBlockString(ls.tok)]
    /\ UNCHANGED <<sc, emitted, run, mf, fd, gi, lk>>

StringNext == ParseValueCall

StringSpec == StringInit /\ [][StringNext]_vars

\* C26: ParseValue returns, and the value of a long string is the bytes
\* between its brackets without one leading newline.
C26_ValueIsBody ==
    (ls # Nil /\ ls.pc = "done") => (ls.v.ok /\ ls.v.s = skipNewline(ls.body))

\* C26 for the long strings without a '[' between the brackets.
C26_ValueIsBodyWithoutBracket ==
    (ls # Nil /\ ls.pc = "done" /\ \A i \in 1..Len(ls.body) : ls.body[i] # "[")
        => (ls.v.ok /\ ls.v.s = skipNewline(ls.body))

\* C26: the call does not panic.
C26_ValueNeverFails == (ls # Nil /\ ls.pc = "done") => ls.v.ok

(***************************************************************************)
(* The tokens of a tree.                                                   *)
(***************************************************************************)
\* The places of the tokens the nodes of a tree hold, in the order the
\* parser made them.
TreeTokenIds(tree) ==
    LET held == UNION {{WalkOrder(node)[i].id :
                          i \in {i \in 1..Len(WalkOrder(node)) : WalkOrder(node)[i].e = "tok"}} :
                       node \in Nodes(tree.f)}
    IN SelectSeq([id \in 1..Len(tree.toks) |-> id], LAMBDA id : id \in held)

\* The tokens of a tree but the last, as pairs of type and bytes.
TreeTokens(tree) ==
    LET ids == TreeTokenIds(tree)
    IN [i \in 1..(Len(ids) - 1) |-> <<tree.toks[ids[i]].Type, tree.toks[ids[i]].Bytes>>]

\* ParseFile has returned without an error.
ParsedWithoutError == run.parsed /\ run.calls = <<>> /\ run.res.err = NoErr

\* C27: when ParseFile returns without an error, the EOFToken of the File is
\* an EOF token and the tokens before it in the tree are, in order, the
\* tokens of the source that are not prefix tokens.
C27_WholeInputIsParsed ==
    ParsedWithoutError
        => /\ Tok(run.res.toks, run.res.f.EOFToken).Type = "EOF"
           /\ TreeTokens(TreeOf(run.res)) = Lexemes(run.src)

\* C27 on the programs of the corpus that are valid Lua.
C27_ValidInputIsParsed ==
    (ParsedWithoutError /\ run.src \in ValidLua)
        => /\ Tok(run.res.toks, run.res.f.EOFToken).Type = "EOF"
           /\ TreeTokens(TreeOf(run.res)) = Lexemes(run.src)

(***************************************************************************)
(* ast: the IsValid methods of the nodes.                                  *)
(***************************************************************************)
IsBool(t) == Between("bool_start", t, "bool_end")

\* NameList.IsValid: both loops range over l.Seps.
NameListIsValid(toks, l) ==
    /\ Len(l.Items) # 0 /\ Len(l.Seps) = Len(l.Items) - 1
    /\ \A i \in 1..Len(l.Seps) : Tok(toks, l.Seps[i]).Type = "NAME"
    /\ \A i \in 1..Len(l.Seps) : Tok(toks, l.Seps[i]).Type = "COMMA"

\* FunctionExpr.IsValid
FunctionExprIsValid(toks, e) ==
    LET ist(id, typ) == Tok(toks, id).Type = typ
    IN /\ ist(e.FuncToken, "FUNCTION") /\ ist(e.LParenToken, "LPAREN")
       /\ ist(e.RParenToken, "RPAREN") /\ ist(e.EndToken, "END")
       /\ IF ist(e.VarArgToken, "VARARG")
          THEN IF e.Params # Nil THEN ist(e.VarArgSepToken, "COMMA")
               ELSE ist(e.VarArgSepToken, "INVALID")
          ELSE ist(e.VarArgToken, "INVALID") /\ ist(e.VarArgSepToken, "INVALID")

\* The IsValid method of a node, by its type.
NodeIsValid(toks, node) ==
    LET k == node.k
        ist(id, typ) == Tok(toks, id).Type = typ
        ist2(id, a, b) == Tok(toks, id).Type \in {a, b}
        isv(i) == i # Nil
    IN CASE k = "File" -> ist(node.EOFToken, "EOF")
         [] k = "Block" ->
              /\ Len(node.Seps) = Len(node.Items)
              /\ \A i \in 1..Len(node.Items) : isv(node.Items[i])
              /\ \A i \in 1..Len(node.Seps) : ist2(node.Seps[i], "SEMICOLON", "INVALID")
         [] k = "ExprList" ->
              /\ Len(node.Items) # 0 /\ Len(node.Seps) = Len(node.Items) - 1
              /\ \A i \in 1..Len(node.Items) : isv(node.Items[i])
              /\ \A i \in 1..Len(node.Seps) : ist(node.Seps[i], "COMMA")
         [] k = "Name" -> ist(node.Token, "NAME")
         [] k = "NameList" -> NameListIsValid(toks, node)
         [] k = "NumberExpr" -> IsNumber(Tok(toks, node.NumberToken).Type)
         [] k = "StringExpr" -> IsString(Tok(toks, node.StringToken).Type)
         [] k = "NilExpr" -> ist(node.NilToken, "NIL")
         [] k = "BoolExpr" -> IsBool(Tok(toks, node.BoolToken).Type)
         [] k = "VarArgExpr" -> ist(node.VarArgToken, "VARARG")
         [] k = "UnopExpr" -> IsUnary(Tok(toks, node.UnopToken).Type) /\ isv(node.Operand)
         [] k = "BinopExpr" ->
              isv(node.Left) /\ IsBinary(Tok(toks, node.BinopToken).Type) /\ isv(node.Right)
         [] k = "ParenExpr" ->
              ist(node.LParenToken, "LPAREN") /\ isv(node.Value) /\ ist(node.RParenToken, "RPAREN")
         [] k = "VariableExpr" -> ist(node.Name.Token, "NAME")
         [] k = "TableCtor" -> ist(node.LBraceToken, "LBRACE") /\ ist(node.RBraceToken, "RBRACE")
         [] k = "EntryList" ->
              /\ Len(node.Seps) \in {Len(node.Items), Len(node.Items) - 1}
              /\ \A i \in 1..Len(node.Items) : isv(node.Items[i])
              /\ \A i \in 1..Len(node.Seps) : ist2(node.Seps[i], "COMMA", "SEMICOLON")
         [] k = "IndexEntry" ->
              /\ ist(node.LBrackToken, "LBRACK") /\ isv(node.Key)
              /\ ist(node.RBrackToken, "RBRACK") /\ ist(node.AssignToken, "ASSIGN")
              /\ isv(node.Value)
         [] k = "FieldEntry" ->
              ist(node.Name.Token, "NAME") /\ ist(node.AssignToken, "ASSIGN") /\ isv(node.Value)
         [] k = "ValueEntry" -> isv(node.Value)
         [] k = "FunctionExpr" -> FunctionExprIsValid(toks, node)
         [] k = "FieldExpr" ->
              isv(node.Value) /\ ist(node.DotToken, "DOT") /\ ist(node.Name.Token, "NAME")
         [] k = "IndexExpr" ->
              /\ isv(node.Value) /\ ist(node.LBrackToken, "LBRACK")
              /\ isv(node.Index) /\ ist(node.RBrackToken, "RBRACK")
         [] k = "MethodExpr" ->
              /\ isv(node.Value) /\ ist(node.ColonToken, "COLON")
              /\ ist(node.Name.Token, "NAME") /\ isv(node.Args)
         [] k = "CallExpr" -> isv(node.Value) /\ isv(node.Args)
         [] k = "ListArgs" -> ist(node.LParenToken, "LPAREN") /\ ist(node.RParenToken, "RPAREN")
         [] k = "TableArg" -> TRUE
         [] k = "StringArg" -> IsString(Tok(toks, node.Value.StringToken).Type)
         [] k = "DoStmt" -> ist(node.DoToken, "DO") /\ ist(node.EndToken, "END")
         [] k = "AssignStmt" -> ist(node.AssignToken, "ASSIGN")
         [] k = "CallStmt" -> isv(node.Call)
         [] k = "IfStmt" ->
              /\ ist(node.IfToken, "IF") /\ isv(node.Cond)
              /\ ist(node.ThenToken, "THEN") /\ ist(node.EndToken, "END")
         [] k = "ElseIfClause" ->
              ist(node.ElseIfToken, "ELSEIF") /\ isv(node.Cond) /\ ist(node.ThenToken, "THEN")
         [] k = "ElseClause" -> ist(node.ElseToken, "ELSE")
         [] k = "NumericForStmt" ->
              /\ ist(node.ForToken, "FOR") /\ ist(node.Name.Token, "NAME")
              /\ ist(node.AssignToken, "ASSIGN") /\ isv(node.Min)
              /\ ist(node.MaxSepToken, "COMMA") /\ isv(node.Max)
              /\ ist2(node.StepSepToken, "COMMA", "INVALID")
              /\ ist(node.DoToken, "DO") /\ ist(node.EndToken, "END")
              /\ IF ist(node.StepSepToken, "COMMA") THEN isv(node.Step) ELSE ~isv(node.Step)
         [] k = "GenericForStmt" ->
              /\ ist(node.ForToken, "FOR") /\ ist(node.InToken, "IN")
              /\ ist(node.DoToken, "DO") /\ ist(node.EndToken, "END")
         [] k = "WhileStmt" ->
              /\ ist(node.WhileToken, "WHILE") /\ isv(node.Cond)
              /\ ist(node.DoToken, "DO") /\ ist(node.EndToken, "END")
         [] k = "RepeatStmt" ->
              ist(node.RepeatToken, "REPEAT") /\ ist(node.UntilToken, "UNTIL") /\ isv(node.Cond)
         [] k = "LocalVarStmt" ->
              /\ ist(node.LocalToken, "LOCAL")
              /\ IF ist(node.AssignToken, "ASSIGN") THEN node.Values # Nil
                 ELSE ist(node.AssignToken, "INVALID") /\ node.Values = Nil
         [] k = "LocalFunctionStmt" ->
              ist(node.LocalToken, "LOCAL") /\ ist(node.Name.Token, "NAME")
         [] k = "FunctionStmt" -> TRUE
         [] k = "FuncNameList" ->
              /\ Len(node.Items) # 0 /\ Len(node.Seps) = Len(node.Items) - 1
              /\ \A i \in 1..Len(node.Seps) : ist(node.Seps[i], "DOT")
              /\ IF ist(node.ColonToken, "COLON") THEN ist(node.Method.Token, "NAME")
                 ELSE ist(node.ColonToken, "INVALID") /\ ist(node.Method.Token, "INVALID")
         [] k = "BreakStmt" -> ist(node.BreakToken, "BREAK")
         [] k = "ReturnStmt" -> ist(node.ReturnToken, "RETURN")

\* The nodes of the tree ParseFile returned that their IsValid rejects.
InvalidNodes == {node \in Nodes(run.res.f) : ~NodeIsValid(run.res.toks, node)}

\* C28: every node of a tree that ParseFile returned without an error is
\* valid by its IsValid method.
C28_NodesAreValid == ParsedWithoutError => InvalidNodes = {}

\* C28 on the valid programs of the corpus.
C28_NodesOfValidLuaAreValid == (ParsedWithoutError /\ run.src \in ValidLua) => InvalidNodes = {}

\* C28 on Src13, a generic for statement with two names.
C28_TwoNames == (ParsedWithoutError /\ run.src = Src13) => InvalidNodes = {}

\* C28 on the nodes other than NameList.
C28_NodesButNameListsAreValid ==
    (ParsedWithoutError /\ run.src \in ValidLua)
        => \A node \in InvalidNodes : node.k = "NameList"

(***************************************************************************)
(* Walk against WriteTo.                                                   *)
(***************************************************************************)
\* The valid tokens a walk has handed to the visitor, by type and offset.
VisitedTokens(seen) ==
    LET valid == SelectSeq(seen, LAMBDA s : IsValid(s.Type))
    IN [i \in 1..Len(valid) |-> <<valid[i].Type, valid[i].Offset>>]

\* The valid tokens WriteTo writes of a tree, by type and offset.
WrittenTokens(tree) ==
    LET valid == SelectSeq(WriteTokens(tree.toks, tree.f),
                           LAMBDA id : IsValid(tree.toks[id].Type))
    IN [i \in 1..Len(valid) |-> <<tree.toks[valid[i]].Type, tree.toks[valid[i]].Offset>>]

\* C29: the valid tokens a walk hands to a token visitor are the tokens that
\* WriteTo writes of the tree, in the same order.
C29_WalkVisitsWhatEmitWrites ==
    TokensWalked => VisitedTokens(run.seen) = WrittenTokens(run.tree)

\* A function statement with a method name.
HasMethodName(tree) ==
    \E l \in Nodes(tree.f) : l.k = "FuncNameList" /\ Tok(tree.toks, l.ColonToken).Type = "COLON"

\* C29 on the trees without a function statement that names a method.
C29_WalkVisitsWhatEmitWritesButMethods ==
    (TokensWalked /\ ~HasMethodName(run.tree))
        => VisitedTokens(run.seen) = WrittenTokens(run.tree)

(***************************************************************************)
(* The tokens a visitor changes.                                           *)
(***************************************************************************)
\* The client has walked the tree ParseFile returned with the visitor of
\* Minify, which erases the prefixes of the valid tokens it is handed.
Stripped == Made(<<"strip">>) /\ run.res.err = NoErr

\* The places of the valid tokens of a tree that have a prefix.
Prefixed(tree) ==
    {id \in 1..Len(tree.toks) :
        /\ \E i \in 1..Len(TreeTokenIds(tree)) : TreeTokenIds(tree)[i] = id
        /\ IsValid(tree.toks[id].Type)
        /\ tree.toks[id].Prefix # <<>>}

\* C30: after a walk with a visitor that erases the prefixes of the valid
\* tokens it is handed, no valid token of the tree has a prefix.
C30_VisitorChangesReachTree == Stripped => Prefixed(run.tree) = {}

\* The places of the tokens of the elseif clauses of a tree.
ClauseTokens(tree) ==
    UNION {{c.ElseIfToken, c.ThenToken} : c \in {c \in Nodes(tree.f) : c.k = "ElseIfClause"}}

\* C30 but for the tokens of the elseif clauses.
C30_VisitorChangesReachTreeButClauses == Stripped => Prefixed(run.tree) \subseteq ClauseTokens(run.tree)

====
